---------------------------- MODULE Spec2Model ----------------------------
(***************************************************************************)
(* Model of the Onyx parts manager: the validation / sanitization helpers  *)
(* of src/security/security_utils.py and the persistence layer of          *)
(* src/database/db.py (components and supplier_parts tables).              *)
(*                                                                         *)
(* A Python str is modelled as a sequence of one-character strings.        *)
(***************************************************************************)
EXTENDS Integers, Sequences, FiniteSets, TLC

VARIABLES
    components,      \* rows of table components (a set of records)
    supplier_parts,  \* rows of table supplier_parts (a set of records)
    now,             \* value CURRENT_TIMESTAMP yields (seconds)
    lastCall,        \* the last Database call: operation, arguments, outcome, time
    vpInput,         \* argument handed to validate_part_number
    vpResult,        \* "pending", or the value validate_part_number returned
    fnCall,          \* a call of a pure helper: function, arguments, result
    fs,              \* the file system: directories, and files with content
    dsCall,          \* the last DatasheetManager call: arguments and outcome
    limiter,         \* a RateLimiter: max_requests, time_window, requests
    rlCall,          \* the last RateLimiter call: method, identifier, result
    allowed,         \* per identifier, the times allow_request returned True
    suppliers,       \* per supplier, its api_key and its RateLimiter
    supCall,         \* the last supplier call: method, part number, result
    gui              \* the main window: rows shown, last message box

\* The variables of the supplier integrations, and of the user interface.
apiVars == <<limiter, rlCall, allowed, suppliers, supCall>>

guiVars == <<gui>>

storeVars == <<components, supplier_parts, now, lastCall, vpInput, vpResult,
               fnCall, fs, dsCall>>

vars == <<components, supplier_parts, now, lastCall, vpInput, vpResult,
          fnCall, fs, dsCall, limiter, rlCall, allowed, suppliers, supCall,
          gui>>

(***************************************************************************)
(* Bounds of the model.                                                    *)
(***************************************************************************)
MaxLen == 3          \* longest enumerated identifier handed to the validator
MaxComponents == 2   \* add_component calls that may succeed
MaxQuotes == 2       \* update_supplier_info calls that may succeed
MaxTime == 2         \* last tick of the clock
MaxStores == 3       \* store_datasheet calls (lines of the operations log)

(***************************************************************************)
(* Characters and Python str primitives.                                   *)
(***************************************************************************)
UpperLetters == <<"A","B","C","D","E","F","G","H","I","J","K","L","M",
                  "N","O","P","Q","R","S","T","U","V","W","X","Y","Z">>
LowerLetters == <<"a","b","c","d","e","f","g","h","i","j","k","l","m",
                  "n","o","p","q","r","s","t","u","v","w","x","y","z">>
DigitChars == <<"0","1","2","3","4","5","6","7","8","9">>

IsUpper(c) == \E i \in 1..26 : UpperLetters[i] = c
IsLower(c) == \E i \in 1..26 : LowerLetters[i] = c
IsDigit(c) == \E i \in 1..10 : DigitChars[i] = c

\* The NUL character '\x00' is written "NUL".
NUL == "NUL"

\* Code point of a character (ASCII).
Code(c) ==
    IF IsUpper(c) THEN 64 + (CHOOSE i \in 1..26 : UpperLetters[i] = c)
    ELSE IF IsLower(c) THEN 96 + (CHOOSE i \in 1..26 : LowerLetters[i] = c)
    ELSE IF IsDigit(c) THEN 47 + (CHOOSE i \in 1..10 : DigitChars[i] = c)
    ELSE CASE c = NUL  -> 0
           [] c = "\t" -> 9
           [] c = "\n" -> 10
           [] c = " "  -> 32
           [] c = "%"  -> 37
           [] c = "*"  -> 42
           [] c = "-"  -> 45
           [] c = "."  -> 46
           [] c = "/"  -> 47
           [] c = ";"  -> 59
           [] c = "_"  -> 95

\* str.upper() on one character, and on a string.
UpperChar(c) ==
    IF IsLower(c) THEN UpperLetters[CHOOSE i \in 1..26 : LowerLetters[i] = c]
    ELSE c

upper(s) == [i \in 1..Len(s) |-> UpperChar(s[i])]

\* Python's "pattern in s".
Contains(s, pattern) ==
    \E i \in 0..(Len(s) - Len(pattern)) :
        SubSeq(s, i + 1, i + Len(pattern)) = pattern

\* Characters str.strip() removes.
Whitespace == {" ", "\t", "\n"}

\* str.strip().
strip(s) ==
    LET keep == {i \in 1..Len(s) : s[i] \notin Whitespace}
    IN  IF keep = {} THEN <<>>
        ELSE LET lo == CHOOSE i \in keep : \A j \in keep : i <= j
                 hi == CHOOSE i \in keep : \A j \in keep : j <= i
             IN  SubSeq(s, lo, hi)

\* str.replace('\x00', '').
RECURSIVE RemoveNul(_)
RemoveNul(s) ==
    IF s = <<>> THEN <<>>
    ELSE IF Head(s) = NUL THEN RemoveNul(Tail(s))
    ELSE <<Head(s)>> \o RemoveNul(Tail(s))

\* A string of n copies of character c.
Rep(c, n) == [i \in 1..n |-> c]

(***************************************************************************)
(* security_utils.py                                                       *)
(***************************************************************************)
MAX_PART_NUMBER_LENGTH == 100
MAX_STRING_LENGTH == 500

\* One character of the class [A-Za-z0-9\-_./ ].
PartNumberChar(c) ==
    IsUpper(c) \/ IsLower(c) \/ IsDigit(c) \/ c \in {"-", "_", ".", "/", " "}

\* PART_NUMBER_PATTERN.match(s) for ^[A-Za-z0-9\-_./ ]+$ : in Python "$"
\* matches at the end of the string and also just before a final newline.
PART_NUMBER_PATTERN(s) ==
    LET body == IF Len(s) > 0 /\ s[Len(s)] = "\n"
                THEN SubSeq(s, 1, Len(s) - 1) ELSE s
    IN  /\ Len(body) > 0
        /\ \A i \in 1..Len(body) : PartNumberChar(body[i])

sql_patterns ==
    << <<"-","-">>, <<";">>, <<"/","*">>, <<"*","/">>,
       <<"x","p","_">>, <<"s","p","_">>,
       <<"D","R","O","P">>, <<"I","N","S","E","R","T">>,
       <<"D","E","L","E","T","E">>, <<"U","P","D","A","T","E">>,
       <<"E","X","E","C">>, <<"E","X","E","C","U","T","E">>,
       <<"S","C","R","I","P","T">>, <<"U","N","I","O","N">>,
       <<"S","E","L","E","C","T">> >>

validate_part_number(part_number) ==
    IF part_number = <<>> THEN FALSE
    ELSE IF Len(part_number) > MAX_PART_NUMBER_LENGTH THEN FALSE
    ELSE IF \E k \in 1..Len(sql_patterns) :
                Contains(upper(part_number), sql_patterns[k]) THEN FALSE
    ELSE IF ~PART_NUMBER_PATTERN(part_number) THEN FALSE
    ELSE TRUE

\* sanitize_string as it would be if it stripped before truncating.
sanitize_string_strip_first(input_string, max_length) ==
    IF input_string = <<>> THEN <<>>
    ELSE LET stripped == strip(input_string)
             truncated == IF Len(stripped) > max_length
                          THEN SubSeq(stripped, 1, max_length)
                          ELSE stripped
         IN  RemoveNul(truncated)

sanitize_string(input_string, max_length) ==
    IF input_string = <<>> THEN <<>>
    ELSE LET truncated == IF Len(input_string) > max_length
                          THEN SubSeq(input_string, 1, max_length)
                          ELSE input_string
         IN  strip(RemoveNul(truncated))


(***************************************************************************)
(* validate_part_number as a pure function: its inputs.                    *)
(***************************************************************************)
ValidateAlphabet == {"x", "P", "_", "-", ";", " "}

\* Every string of at most n characters over ValidateAlphabet.
StringsUpTo(n) == UNION {[1..k -> ValidateAlphabet] : k \in 0..n}

\* Strings the security test prints as Invalid, and the SQL / traversal
\* strings of the specification.
RejectedSamples ==
    { <<";"," ","D","E","L","E","T","E"," ","F","R","O","M"," ",
        "c","o","m","p","o","n","e","n","t","s","-","-">>,
      <<".",".","/",".",".","/","e","t","c","/","p","a","s","s","w","d">>,
      <<".",".","/",".",".","/",".",".","/","e","t","c","/",
        "p","a","s","s","w","d">>,
      <<"D","R","O","P"," ","T","A","B","L","E">>,
      <<";"," ","D","E","L","E","T","E"," ","F","R","O","M","-","-">> }

AcceptedSamples ==
    { <<"O","N","X","-","C","A","P","-","0","0","1">>,
      <<"A","B","C","-","1","2","3">>,
      <<"L","M","5","1","6","6">> }

OtherSamples ==
    { <<"d","r","o","p">>, <<"S","e","l","e","c","t">>,
      <<"x","p","_","c","m","d">>, <<"S","P","_","w","h","o">>,
      <<"A","/","*">>, <<"A","\n">>, <<"A","\n","\n">>, <<"A",NUL>>,
      Rep("A", MAX_PART_NUMBER_LENGTH),
      Rep("A", MAX_PART_NUMBER_LENGTH + 1),
      Rep("A", MAX_PART_NUMBER_LENGTH) \o <<";">> }

PartNumberInputs ==
    StringsUpTo(MaxLen) \cup RejectedSamples \cup AcceptedSamples
        \cup OtherSamples

(***************************************************************************)
(* Values handed to int() / float(): an int, a str or None.                *)
(***************************************************************************)
IntArg(n) == [kind |-> "int", n |-> n, s |-> <<>>]
StrArg(s) == [kind |-> "str", n |-> 0, s |-> s]
NoneArg == [kind |-> "none", n |-> 0, s |-> <<>>]

\* The digits of an int literal, after the optional sign.
LiteralBody(s) ==
    LET t == strip(s)
    IN  IF t # <<>> /\ t[1] \in {"-", "+"} THEN Tail(t) ELSE t

IsIntLiteral(s) ==
    /\ LiteralBody(s) # <<>>
    /\ \A i \in 1..Len(LiteralBody(s)) : IsDigit(LiteralBody(s)[i])

RECURSIVE DigitsValue(_)
DigitsValue(d) ==
    IF d = <<>> THEN 0
    ELSE 10 * DigitsValue(SubSeq(d, 1, Len(d) - 1)) + (Code(d[Len(d)]) - 48)

\* int(v) raises ValueError / TypeError exactly when ~IntCoercible(v).
IntCoercible(v) == v.kind = "int" \/ (v.kind = "str" /\ IsIntLiteral(v.s))

int(v) ==
    IF v.kind = "int" THEN v.n
    ELSE IF strip(v.s)[1] = "-" THEN 0 - DigitsValue(LiteralBody(v.s))
    ELSE DigitsValue(LiteralBody(v.s))

(***************************************************************************)
(* db.py : the tables.  NULL / None is the empty tuple, a present value v  *)
(* is <<v>>.                                                               *)
(***************************************************************************)
None == <<>>
Some(v) == <<v>>

\* Next value of an INTEGER PRIMARY KEY AUTOINCREMENT column (no row is
\* ever deleted, so the largest id ever used is the largest id stored).
NextRowId(rows) ==
    IF rows = {} THEN 1
    ELSE 1 + (CHOOSE m \in {r.id : r \in rows} : \A r \in rows : r.id <= m)

\* add_component as it would be if a rejected identifier or stock value were
\* cleaned up and stored instead of raising.
add_component_sanitizing(comps, t, a) ==
    LET row ==
          [id |-> NextRowId(comps),
           company_part_number |->
               sanitize_string(a.company_part_number, 100),
           type |-> sanitize_string(a.type_name, 50),
           value |-> sanitize_string(a.value, 100),
           package_type |-> sanitize_string(a.package_type, 50),
           footprint_size |-> sanitize_string(a.footprint_size, 50),
           voltage_rating |-> sanitize_string(a.voltage_rating, 50),
           description |-> sanitize_string(a.description, 500),
           manufacturer |-> sanitize_string(a.manufacturer, 100),
           manufacturer_part_number |-> sanitize_string(a.mpn, 100),
           datasheet_path |->
               IF a.datasheet_path # <<>>
               THEN Some(sanitize_string(a.datasheet_path, 500))
               ELSE None,
           stock |-> IF IntCoercible(a.stock) THEN int(a.stock) ELSE 0,
           minimum_stock |->
               IF IntCoercible(a.minimum_stock)
               THEN int(a.minimum_stock) ELSE 0,
           created_at |-> t,
           updated_at |-> t]
    IN  IF \E r \in comps : r.company_part_number = row.company_part_number
        THEN [status |-> "IntegrityError", components |-> comps,
              lastrowid |-> 0]
        ELSE [status |-> "ok", components |-> comps \cup {row},
              lastrowid |-> row.id]

\* Database.add_component: the outcome of one call on table comps at time t.
add_component(comps, t, a) ==
    IF ~validate_part_number(a.company_part_number)
    THEN [status |-> "ValueError", components |-> comps, lastrowid |-> 0]
    ELSE IF \/ (a.stock.kind # "none" /\ ~IntCoercible(a.stock))
            \/ (a.minimum_stock.kind # "none"
                    /\ ~IntCoercible(a.minimum_stock))
    THEN [status |-> "ValueError", components |-> comps, lastrowid |-> 0]
    ELSE LET row ==
               [id |-> NextRowId(comps),
                company_part_number |->
                    sanitize_string(a.company_part_number, 100),
                type |-> sanitize_string(a.type_name, 50),
                value |-> sanitize_string(a.value, 100),
                package_type |-> sanitize_string(a.package_type, 50),
                footprint_size |-> sanitize_string(a.footprint_size, 50),
                voltage_rating |-> sanitize_string(a.voltage_rating, 50),
                description |-> sanitize_string(a.description, 500),
                manufacturer |-> sanitize_string(a.manufacturer, 100),
                manufacturer_part_number |-> sanitize_string(a.mpn, 100),
                datasheet_path |->
                    IF a.datasheet_path # <<>>
                    THEN Some(sanitize_string(a.datasheet_path, 500))
                    ELSE None,
                stock |-> IF a.stock.kind # "none" THEN int(a.stock) ELSE 0,
                minimum_stock |->
                    IF a.minimum_stock.kind # "none"
                    THEN int(a.minimum_stock) ELSE 0,
                created_at |-> t,
                updated_at |-> t]
         IN  IF \E r \in comps :
                    r.company_part_number = row.company_part_number
             THEN [status |-> "IntegrityError", components |-> comps,
                   lastrowid |-> 0]
             ELSE [status |-> "ok", components |-> comps \cup {row},
                   lastrowid |-> row.id]

(***************************************************************************)
(* Database.search_components                                              *)
(***************************************************************************)
\* SQLite's  text LIKE pattern : "%" matches any run of characters, "_" any
\* one character, letters match without regard to ASCII case.
RECURSIVE LikeMatch(_, _)
LikeMatch(pattern, text) ==
    IF pattern = <<>> THEN text = <<>>
    ELSE IF Head(pattern) = "%"
    THEN \/ LikeMatch(Tail(pattern), text)
         \/ (text # <<>> /\ LikeMatch(pattern, Tail(text)))
    ELSE IF text = <<>> THEN FALSE
    ELSE IF Head(pattern) = "_" THEN LikeMatch(Tail(pattern), Tail(text))
    ELSE /\ UpperChar(Head(pattern)) = UpperChar(Head(text))
         /\ LikeMatch(Tail(pattern), Tail(text))

\* The bound parameter f"%{filter}%".
Wrap(f) == <<"%">> \o f \o <<"%">>

\* Order of the BINARY collation: memcmp, the shorter string first on a tie.
RECURSIVE BinaryLess(_, _)
BinaryLess(a, b) ==
    IF b = <<>> THEN FALSE
    ELSE IF a = <<>> THEN TRUE
    ELSE IF Code(Head(a)) # Code(Head(b)) THEN Code(Head(a)) < Code(Head(b))
    ELSE BinaryLess(Tail(a), Tail(b))

\* ORDER BY company_part_number (rows of equal key in rowid order).
RowBefore(r, q) ==
    \/ BinaryLess(r.company_part_number, q.company_part_number)
    \/ (r.company_part_number = q.company_part_number /\ r.id < q.id)

\* The rows in insertion (rowid) order, as without the ORDER BY clause.
RECURSIVE OrderBy_rowid(_)
OrderBy_rowid(rows) ==
    IF rows = {} THEN <<>>
    ELSE LET first == CHOOSE r \in rows : \A q \in rows : r.id <= q.id
         IN  <<first>> \o OrderBy_rowid(rows \ {first})

RECURSIVE OrderBy(_)
OrderBy(rows) ==
    IF rows = {} THEN <<>>
    ELSE LET first == CHOOSE r \in rows :
                          \A q \in rows \ {r} : RowBefore(r, q)
         IN  <<first>> \o OrderBy(rows \ {first})

\* "company_part_number = ?" with the same parameter: LIKE forgotten.
PnCondition_eq(row, f) == row.company_part_number = Wrap(f)

\* "company_part_number LIKE ?" with the parameter f"%{pn_filter}%".
PnCondition(row, f) == LikeMatch(Wrap(f), row.company_part_number)

\* "value LIKE ?" with the parameter f"%{value_filter}%".
ValueCondition(row, f) == LikeMatch(Wrap(f), row.value)

\* search_components as it would be if "All" were compared like any category.
search_components_all(comps, pn_filter, type_filter, value_filter) ==
    LET pnOn == pn_filter # None /\ strip(pn_filter[1]) # <<>>
        pn == sanitize_string(strip(pn_filter[1]), 100)
        pnUsed == pnOn /\ validate_part_number(pn)
        tyOn == type_filter # None /\ type_filter[1] # <<>>
        ty == sanitize_string(type_filter[1], 50)
        valOn == value_filter # None /\ strip(value_filter[1]) # <<>>
        val == sanitize_string(strip(value_filter[1]), 100)
    IN  OrderBy({r \in comps :
                    /\ pnUsed => PnCondition(r, pn)
                    /\ tyOn => r.type = ty
                    /\ valOn => ValueCondition(r, val)})

\* search_components as it would be if the identifier filter were used
\* without asking validate_part_number.
search_components_unvalidated(comps, pn_filter, type_filter, value_filter) ==
    LET pnOn == pn_filter # None /\ strip(pn_filter[1]) # <<>>
        pn == sanitize_string(strip(pn_filter[1]), 100)
        tyOn == /\ type_filter # None
                /\ type_filter[1] # <<>>
                /\ type_filter[1] # <<"A","l","l">>
        ty == sanitize_string(type_filter[1], 50)
        valOn == value_filter # None /\ strip(value_filter[1]) # <<>>
        val == sanitize_string(strip(value_filter[1]), 100)
    IN  OrderBy({r \in comps :
                    /\ pnOn => PnCondition(r, pn)
                    /\ tyOn => r.type = ty
                    /\ valOn => ValueCondition(r, val)})

\* Filters are None or Some(str).  The rows search_components returns.
search_components(comps, pn_filter, type_filter, value_filter) ==
    LET pnOn == pn_filter # None /\ strip(pn_filter[1]) # <<>>
        pn == sanitize_string(strip(pn_filter[1]), 100)
        pnUsed == pnOn /\ validate_part_number(pn)
        tyOn == /\ type_filter # None
                /\ type_filter[1] # <<>>
                /\ type_filter[1] # <<"A","l","l">>
        ty == sanitize_string(type_filter[1], 50)
        valOn == value_filter # None /\ strip(value_filter[1]) # <<>>
        val == sanitize_string(strip(value_filter[1]), 100)
    IN  OrderBy({r \in comps :
                    /\ pnUsed => PnCondition(r, pn)
                    /\ tyOn => r.type = ty
                    /\ valOn => ValueCondition(r, val)})

(***************************************************************************)
(* MainWindow.perform_search                                               *)
(***************************************************************************)
\* The rows handed to PartsList.update_parts_list.  The two texts of the
\* search panel are passed to search_components by position.
perform_search(comps, type_filter, value_filter) ==
    IF type_filter = <<"A","l","l">> /\ strip(value_filter) = <<>>
    THEN search_components(comps, None, None, None)
    ELSE search_components(comps, Some(type_filter), Some(value_filter), None)

(***************************************************************************)
(* PartsList.show_add_component_dialog                                     *)
(***************************************************************************)
\* The columns of the components table (CREATE TABLE in init_database).
ComponentColumns ==
    { "id", "company_part_number", "type", "value", "package_type",
      "footprint_size", "voltage_rating", "description", "manufacturer",
      "manufacturer_part_number", "datasheet_path", "stock", "minimum_stock",
      "created_at", "updated_at" }

\* The columns named by the INSERT statement of the dialog.
DialogInsertColumns ==
    { "company_part_number", "type_name", "value", "package_type",
      "footprint_size", "voltage_rating", "description", "manufacturer",
      "mpn", "datasheet_path", "stock", "minimum_stock" }

\* The confirmed dialog: the INSERT of the entered data as it stands, and the
\* message box that follows.  SQLite refuses a statement that names a column
\* the table does not have (OperationalError) before any row is written.
show_add_component_dialog(comps, t, data) ==
    IF ~(DialogInsertColumns \subseteq ComponentColumns)
    THEN [status |-> "OperationalError", components |-> comps,
          message |-> "Failed to add component"]
    ELSE LET row ==
               [id |-> NextRowId(comps),
                company_part_number |-> data.company_part_number,
                type |-> data.type,
                value |-> data.value,
                package_type |-> data.package_type,
                footprint_size |-> data.footprint_size,
                voltage_rating |-> data.voltage_rating,
                description |-> data.description,
                manufacturer |-> data.manufacturer,
                manufacturer_part_number |-> data.mpn,
                datasheet_path |-> None,
                stock |-> data.stock,
                minimum_stock |-> 0,
                created_at |-> t,
                updated_at |-> t]
         IN  IF \E r \in comps :
                    r.company_part_number = row.company_part_number
             THEN [status |-> "IntegrityError", components |-> comps,
                   message |-> "already exists"]
             ELSE [status |-> "ok", components |-> comps \cup {row},
                   message |-> "Success"]

(***************************************************************************)
(* Database.update_supplier_info                                           *)
(***************************************************************************)
\* float(v) raises exactly when ~FloatCoercible(v); the inputs of the model
\* are ints, int literals and text that is no number.
FloatCoercible(v) == IntCoercible(v)

float(v) == int(v)

update_supplier_info(quotes, t, a) ==
    IF ~IntCoercible(a.component_id)
    THEN [status |-> "ValueError", supplier_parts |-> quotes]
    ELSE IF \/ (a.price.kind # "none" /\ ~FloatCoercible(a.price))
            \/ (a.stock.kind # "none" /\ ~IntCoercible(a.stock))
    THEN [status |-> "ValueError", supplier_parts |-> quotes]
    ELSE LET row ==
               [id |-> NextRowId(quotes),
                component_id |-> int(a.component_id),
                supplier |-> sanitize_string(a.supplier, 50),
                supplier_part_number |-> sanitize_string(a.part_number, 100),
                price |-> IF a.price.kind # "none"
                          THEN Some(float(a.price)) ELSE None,
                stock |-> IF a.stock.kind # "none"
                          THEN Some(int(a.stock)) ELSE None,
                last_updated |-> t]
         \* INSERT OR REPLACE deletes the rows that collide with the new
         \* row on a PRIMARY KEY or UNIQUE constraint: id is the only one.
         IN  [status |-> "ok",
              supplier_parts |-> {r \in quotes : r.id # row.id} \cup {row}]

(***************************************************************************)
(* Inputs of the Database calls.                                           *)
(***************************************************************************)
Capacitor == <<"C","a","p","a","c","i","t","o","r">>
Resistor == <<"R","e","s","i","s","t","o","r">>
All == <<"A","l","l">>

\* Identifiers handed to add_component.
PnInputs ==
    { <<>>, <<" ">>, <<"A">>, <<" ","A">>, <<"A","B">>, <<"A","_">>,
      <<"A",";">> }

\* The other arguments of add_component.
FieldInputs ==
    { [type_name |-> Capacitor, value |-> <<"1","0","0","n","F">>,
       package_type |-> <<"0","8","0","5">>, footprint_size |-> <<>>,
       voltage_rating |-> <<"5","0","V">>, description |-> <<"c","a","p">>,
       manufacturer |-> <<"T","D","K">>, mpn |-> <<"C","1">>,
       datasheet_path |-> <<>>,
       stock |-> IntArg(100), minimum_stock |-> IntArg(20)],
      [type_name |-> <<" ","I","C"," ">>, value |-> <<"1","0","k">>,
       package_type |-> <<>>, footprint_size |-> <<"0","6","0","3">>,
       voltage_rating |-> <<>>, description |-> <<"r","e","s",NUL>>,
       manufacturer |-> <<"Y","a","g","e","o">>, mpn |-> <<"R","C">>,
       datasheet_path |-> <<"a",".","p","d","f">>,
       stock |-> StrArg(<<" ","-","1">>), minimum_stock |-> NoneArg],
      [type_name |-> Capacitor, value |-> <<>>,
       package_type |-> <<>>, footprint_size |-> <<>>,
       voltage_rating |-> <<>>, description |-> <<>>,
       manufacturer |-> <<>>, mpn |-> <<>>, datasheet_path |-> <<>>,
       stock |-> StrArg(<<"x">>), minimum_stock |-> IntArg(0)],
      [type_name |-> Resistor, value |-> <<>>,
       package_type |-> <<>>, footprint_size |-> <<>>,
       voltage_rating |-> <<>>, description |-> <<>>,
       manufacturer |-> <<>>, mpn |-> <<>>, datasheet_path |-> <<>>,
       stock |-> IntArg(0), minimum_stock |-> StrArg(<<"1",".","5">>)] }

\* Filters handed to search_components.
PnFilters ==
    { None, Some(<<>>), Some(<<"A">>), Some(<<"A","B">>), Some(<<"a">>),
      Some(<<"A","_">>), Some(<<"A",";">>) }

TypeFilters == { None, Some(All), Some(Capacitor) }

ValueFilters == { None, Some(<<"1","0">>) }

\* Inputs of the specification of the search filters: a few identifiers to
\* store, and filters that are absent, blank, plain, wildcards or rejected.
SearchPnInputs == { <<"A">>, <<"A","B">>, <<"b">> }

SearchFieldInputs ==
    {f \in FieldInputs :
        /\ f.stock.kind = "none" \/ IntCoercible(f.stock)
        /\ f.minimum_stock.kind = "none" \/ IntCoercible(f.minimum_stock)}

SearchPnFilters ==
    { None, Some(<<>>), Some(<<" ">>), Some(<<"A">>), Some(<<"A","_">>),
      Some(<<"A",";">>), Some(<<"A",NUL>>) }

SearchTypeFilters ==
    { None, Some(<<>>), Some(<<" ">>), Some(All), Some(Capacitor) }

SearchValueFilters ==
    { None, Some(<<>>), Some(<<" ">>), Some(<<"1","_","0">>) }

\* The entries of the search panel: the type chosen and the value typed.
PanelTypes == { All, Capacitor, <<"I","C">> }

PanelValues == { <<>>, <<" ">>, <<"1","0">> }

\* What ComponentDialog.get_component_data returns: the identifier typed, and
\* the other entries.
DialogPnInputs == { <<"A">>, <<"A","B">>, <<"b">>, <<"A",";">>, <<>> }

DialogFieldInputs ==
    { [type |-> Capacitor, value |-> <<"1","0","0","n","F">>,
       package_type |-> <<"0","8","0","5">>, footprint_size |-> <<>>,
       voltage_rating |-> <<"5","0","V">>, description |-> <<"c","a","p">>,
       manufacturer |-> <<"T","D","K">>, mpn |-> <<"C","1">>, stock |-> 100],
      [type |-> <<"I","C">>, value |-> <<>>,
       package_type |-> <<>>, footprint_size |-> <<>>,
       voltage_rating |-> <<>>, description |-> <<>>,
       manufacturer |-> <<>>, mpn |-> <<>>, stock |-> 0] }

\* Arguments of update_supplier_info.
ComponentIdInputs == { IntArg(1), StrArg(<<"2">>), StrArg(<<"x">>) }

SupplierInputs == { <<"d","i","g","i","k","e","y">>, <<"m","o","u","s","e","r">> }

QuoteInputs ==
    { [part_number |-> <<"P","1">>, price |-> IntArg(1), stock |-> IntArg(5)],
      [part_number |-> <<"P","2">>, price |-> IntArg(2), stock |-> NoneArg],
      [part_number |-> <<"P","3">>, price |-> StrArg(<<"x">>),
       stock |-> IntArg(1)] }

(***************************************************************************)
(* parts_list.py : PartsList._parse_value_and_unit.  A float is modelled   *)
(* as the decimal number m * 10^e it stands for; where the binary value    *)
(* decides the outcome (a rounding tie) both outcomes are kept.            *)
(***************************************************************************)
Inductor == <<"I","n","d","u","c","t","o","r">>

IC == <<"I","C">>

\* The decimal number m * 10^e, m >= 0.
Dec(m, e) == [m |-> m, e |-> e]

RECURSIVE NumDigits(_)
NumDigits(n) == IF n < 10 THEN 1 ELSE 1 + NumDigits(n \div 10)

RECURSIVE Pow10(_)
Pow10(k) == IF k = 0 THEN 1 ELSE 10 * Pow10(k - 1)

\* One representation for each number: no trailing zero in m, zero is 0e0.
RECURSIVE Normal(_)
Normal(v) ==
    IF v.m = 0 THEN Dec(0, 0)
    ELSE IF v.m % 10 = 0 THEN Normal(Dec(v.m \div 10, v.e + 1))
    ELSE v

\* v * 10^k
Scale(v, k) == Dec(v.m, v.e + k)

\* v >= 10^t
AtLeastPow10(v, t) == v.m > 0 /\ NumDigits(v.m) >= t - v.e + 1

\* The characters the loop sends to numeric_part, and those to unit_part.
IsNumericChar(c) == IsDigit(c) \/ c = "."

numeric_part(value_str) == SelectSeq(value_str, IsNumericChar)

unit_part(value_str) == SelectSeq(value_str, LAMBDA c : ~IsNumericChar(c))

\* float(numeric_part) raises ValueError unless the text has a digit and at
\* most one dot.
FloatParses(num) ==
    /\ \E i \in 1..Len(num) : IsDigit(num[i])
    /\ Cardinality({i \in 1..Len(num) : num[i] = "."}) <= 1

\* float(numeric_part) of a text that parses.
FloatOf(num) ==
    LET digits == SelectSeq(num, IsDigit)
        hasDot == \E i \in 1..Len(num) : num[i] = "."
        dot == CHOOSE i \in 1..Len(num) : num[i] = "."
    IN  Dec(DigitsValue(digits), IF hasDot THEN dot - Len(num) ELSE 0)

\* The multipliers dict: the power of ten of each prefix.
MultiplierChars == {"p", "n", "u", "µ", "m", "k", "M"}

multipliers(c) ==
    CASE c = "p" -> 0 - 12
      [] c = "n" -> 0 - 9
      [] c = "u" -> 0 - 6
      [] c = "µ" -> 0 - 6
      [] c = "m" -> 0 - 3
      [] c = "k" -> 3
      [] c = "M" -> 6

\* ApplyMultiplier as it would be if the last character of the suffix were
\* consulted.
ApplyMultiplier_last(v, unit) ==
    IF unit # <<>> /\ unit[Len(unit)] \in MultiplierChars
    THEN Scale(v, multipliers(unit[Len(unit)]))
    ELSE v

\* ApplyMultiplier as it would be if no multiplier were applied.
ApplyMultiplier_none(v, unit) == v

\* if unit_part and unit_part[0] in multipliers: numeric_value *= ...
ApplyMultiplier(v, unit) ==
    IF unit # <<>> /\ unit[1] \in MultiplierChars
    THEN Scale(v, multipliers(unit[1]))
    ELSE v

\* The unit chosen for the component type, and the value rescaled to it.
Rescale(v, component_type) ==
    IF component_type = Resistor THEN
        IF AtLeastPow10(v, 6) THEN [value |-> Scale(v, 0 - 6), unit |-> "MΩ"]
        ELSE IF AtLeastPow10(v, 3)
             THEN [value |-> Scale(v, 0 - 3), unit |-> "kΩ"]
        ELSE [value |-> v, unit |-> "Ω"]
    ELSE IF component_type = Capacitor THEN
        IF AtLeastPow10(v, 0 - 6) THEN [value |-> Scale(v, 6), unit |-> "µF"]
        ELSE IF AtLeastPow10(v, 0 - 9)
             THEN [value |-> Scale(v, 9), unit |-> "nF"]
        ELSE [value |-> Scale(v, 12), unit |-> "pF"]
    ELSE IF component_type = Inductor THEN
        IF AtLeastPow10(v, 0 - 3) THEN [value |-> Scale(v, 3), unit |-> "mH"]
        ELSE IF AtLeastPow10(v, 0 - 6)
             THEN [value |-> Scale(v, 6), unit |-> "µH"]
        ELSE [value |-> Scale(v, 9), unit |-> "nH"]
    ELSE [value |-> v, unit |-> ""]

\* round(numeric_value, 3): the multiples of 0.001 the float can round to.
\* Exactly halfway between two of them the binary value decides, so both are
\* possible.
round3(v) ==
    IF v.e >= 0 - 3 THEN {Normal(v)}
    ELSE LET k == 0 - 3 - v.e
         IN  IF NumDigits(v.m) < k THEN {Dec(0, 0)}
             ELSE LET d == Pow10(k)
                      q == v.m \div d
                      r == v.m % d
                  IN  IF 2 * r < d THEN {Normal(Dec(q, 0 - 3))}
                      ELSE IF 2 * r > d THEN {Normal(Dec(q + 1, 0 - 3))}
                      ELSE {Normal(Dec(q, 0 - 3)), Normal(Dec(q + 1, 0 - 3))}

\* What a call gives: a returned pair, or an exception that escapes.
Returned(value, unit) == [raised |-> FALSE, value |-> value, unit |-> unit]

Raised == [raised |-> TRUE, value |-> Dec(0, 0), unit |-> ""]

\* _parse_value_and_unit as it would be without its except clause.
parse_value_and_unit_uncaught(value_str, component_type) ==
    IF value_str = <<>> THEN {Returned(Dec(0, 0), "")}
    ELSE IF ~FloatParses(numeric_part(value_str)) THEN {Raised}
    ELSE LET v == ApplyMultiplier(FloatOf(numeric_part(value_str)),
                                  unit_part(value_str))
             out == Rescale(v, component_type)
         IN  {Returned(x, out.unit) : x \in round3(out.value)}

\* The results _parse_value_and_unit can return for a str and a type.
parse_value_and_unit(value_str, component_type) ==
    IF value_str = <<>> THEN {Returned(Dec(0, 0), "")}
    ELSE IF ~FloatParses(numeric_part(value_str))
         THEN {Returned(Dec(0, 0), "")}
    ELSE LET v == ApplyMultiplier(FloatOf(numeric_part(value_str)),
                                  unit_part(value_str))
             out == Rescale(v, component_type)
         IN  {Returned(x, out.unit) : x \in round3(out.value)}

\* Inputs of _parse_value_and_unit: every short text over the characters
\* that matter, the examples of the documentation, and the component types.
ValueAlphabet == {"0", "1", "5", ".", "p", "n", "µ", "m", "k", "M", "x"}

ValueSamples ==
    { <<"1","0","0","n">>, <<"4",".","7","µ">>, <<"1","0","k">>,
      <<"a","b","c">>, <<"1",".","2",".","3">>, <<"4",".","7","u","F">> }

ValueInputs ==
    ValueSamples \cup
    UNION {[1..n -> ValueAlphabet] : n \in 0..MaxLen}

\* Inputs of sanitize_string: every short text over a letter, whitespace and
\* the null character, and every max_length up to the longest text.
SanitizeAlphabet == {"a", " ", "\n", NUL}

SanitizeInputs == UNION {[1..n -> SanitizeAlphabet] : n \in 0..MaxLen}

MaxLengths == 0..MaxLen

ComponentTypes == {Resistor, Capacitor, Inductor, IC}

(***************************************************************************)
(* The file system of the datasheet store.  A path is the sequence of its  *)
(* segments below the root, each segment a str.                            *)
(***************************************************************************)
\* DatasheetManager.base_path, and the directory source files are picked from.
BasePath == << <<"d","a","t","a">>, <<"d","a","t","a","s","h","e","e","t","s">> >>
SourceDir == << <<"h","o","m","e">> >>

PdfName == <<"t",".","p","d","f">>
UpperPdfName == <<"T",".","P","D","F">>
TxtName == <<"t",".","t","x","t">>
MissingName == <<"n","o",".","p","d","f">>
LogName == <<"d","a","t","a","s","h","e","e","t","_","o","p","e","r","a",
             "t","i","o","n","s",".","l","o","g">>

\* Every proper and improper prefix of path p that is not the root.
Ancestors(p) == {SubSeq(p, 1, k) : k \in 1..Len(p)}

\* After DatasheetManager.__init__: base_path exists (mkdir parents=True)
\* and holds the log file the FileHandler opens; the user's folder holds
\* the files that may be offered as datasheets.
InitFs ==
    [dirs |-> Ancestors(BasePath) \cup Ancestors(SourceDir)
                 \cup {SourceDir \o << <<"v","2">> >>},
     files |-> { [path |-> BasePath \o <<LogName>>, content |-> 0],
                 [path |-> SourceDir \o <<PdfName>>, content |-> 1],
                 [path |-> SourceDir \o << <<"v","2">>, PdfName >>,
                  content |-> 2],
                 [path |-> SourceDir \o <<UpperPdfName>>, content |-> 3],
                 [path |-> SourceDir \o <<TxtName>>, content |-> 4] }]

\* str.lower() on ASCII letters.
LowerChar(c) ==
    IF IsUpper(c) THEN LowerLetters[CHOOSE i \in 1..26 : UpperLetters[i] = c]
    ELSE c

lower(s) == [i \in 1..Len(s) |-> LowerChar(s[i])]

\* pathlib (POSIX): the parts of a str, cut at "/"; empty parts and "."
\* are dropped, ".." is kept.
RECURSIVE Parts(_)
Parts(s) ==
    IF s = <<>> THEN <<>>
    ELSE LET cut == IF \E i \in 1..Len(s) : s[i] = "/"
                    THEN CHOOSE i \in 1..Len(s) :
                             /\ s[i] = "/"
                             /\ \A j \in 1..(i - 1) : s[j] # "/"
                    ELSE Len(s) + 1
             head == SubSeq(s, 1, cut - 1)
             rest == SubSeq(s, cut + 1, Len(s))
         IN  (IF head = <<>> \/ head = <<".">> THEN <<>> ELSE <<head>>)
                 \o Parts(rest)

\* base / s : an absolute s replaces the base.
Join(base, s) ==
    IF s # <<>> /\ s[1] = "/" THEN Parts(s) ELSE base \o Parts(s)

\* Path.suffix of a file name.
Suffix(name) ==
    LET dots == {i \in 1..Len(name) : name[i] = "."}
        last == CHOOSE i \in dots : \A j \in dots : j <= i
    IN  IF dots = {} THEN <<>>
        ELSE IF last = 1 \/ last = Len(name) THEN <<>>
        ELSE SubSeq(name, last, Len(name))

IsDir(fsys, p) == p = <<>> \/ p \in fsys.dirs

IsFile(fsys, p) == \E f \in fsys.files : f.path = p

Parent(p) == IF p = <<>> THEN <<>> ELSE SubSeq(p, 1, Len(p) - 1)

\* The operating system following a path part by part: ".." leaves a
\* directory that must exist.
RECURSIVE Walk(_, _, _)
Walk(fsys, done, rest) ==
    IF rest = <<>> THEN [ok |-> TRUE, path |-> done]
    ELSE IF Head(rest) = <<".", ".">>
         THEN IF IsDir(fsys, done)
              THEN Walk(fsys, Parent(done), Tail(rest))
              ELSE [ok |-> FALSE, path |-> <<>>]
    ELSE Walk(fsys, done \o <<Head(rest)>>, Tail(rest))

Resolve(fsys, p) == Walk(fsys, <<>>, p)

\* Path.mkdir(exist_ok=True): the parent must exist.
mkdir(fsys, p) ==
    LET r == Resolve(fsys, p)
    IN  IF ~r.ok THEN [status |-> "FileNotFoundError", fs |-> fsys]
        ELSE IF IsDir(fsys, r.path) THEN [status |-> "ok", fs |-> fsys]
        ELSE IF IsFile(fsys, r.path) \/ IsFile(fsys, Parent(r.path))
             THEN [status |-> "OSError", fs |-> fsys]
        ELSE IF ~IsDir(fsys, Parent(r.path))
             THEN [status |-> "FileNotFoundError", fs |-> fsys]
        ELSE [status |-> "ok",
              fs |-> [fsys EXCEPT !.dirs = @ \cup {r.path}]]

\* Path.mkdir(parents=True, exist_ok=True): missing ancestors are created.
mkdir_parents(fsys, p) ==
    LET r == Resolve(fsys, p)
    IN  IF ~r.ok THEN [status |-> "FileNotFoundError", fs |-> fsys]
        ELSE IF \E k \in 1..Len(r.path) : IsFile(fsys, SubSeq(r.path, 1, k))
             THEN [status |-> "OSError", fs |-> fsys]
        ELSE [status |-> "ok",
              fs |-> [fsys EXCEPT !.dirs = @ \cup Ancestors(r.path)]]

\* shutil.copy2(src, dst): into dst when dst is a directory, else onto it.
copy2(fsys, src, dst) ==
    LET r == Resolve(fsys, dst)
        target == IF IsDir(fsys, r.path) THEN r.path \o <<src[Len(src)]>>
                  ELSE r.path
        content == (CHOOSE f \in fsys.files : f.path = src).content
    IN  IF \/ ~r.ok
           \/ ~IsDir(fsys, Parent(target))
           \/ IsDir(fsys, target)
           \/ target = src
        THEN [status |-> "OSError", fs |-> fsys]
        ELSE [status |-> "ok",
              fs |-> [fsys EXCEPT
                         !.files = {f \in @ : f.path # target}
                                      \cup {[path |-> target,
                                             content |-> content]}]]

\* self.logger.info / .error : one more line in the log file.
LogPath == BasePath \o <<LogName>>

LogLines(fsys) == (CHOOSE f \in fsys.files : f.path = LogPath).content

Logged(fsys) ==
    [fsys EXCEPT !.files = {f \in @ : f.path # LogPath}
                              \cup {[path |-> LogPath,
                                     content |-> LogLines(fsys) + 1]}]

\* DatasheetManager.get_datasheet_path: the directory is made, the path
\* returned.
get_datasheet_path(fsys, component_id, filename) ==
    LET component_dir == Join(BasePath, component_id)
        made == mkdir(fsys, component_dir)
    IN  [status |-> made.status, fs |-> made.fs,
         path |-> component_dir \o <<filename>>]

\* DatasheetManager.store_datasheet: the exception raised or "ok", the file
\* system afterwards, and the path returned.
store_datasheet(fsys, component_id, file_path) ==
    LET name == file_path[Len(file_path)]
        Fails(exception) ==
            [status |-> exception, fs |-> Logged(fsys), ret |-> <<>>]
    IN  IF component_id = <<>> THEN Fails("ValueError")
        ELSE IF ~(IsFile(fsys, file_path) \/ IsDir(fsys, file_path))
             THEN Fails("FileNotFoundError")
        ELSE IF lower(Suffix(name)) # <<".", "p", "d", "f">>
             THEN Fails("ValueError")
        ELSE
            LET dest == get_datasheet_path(fsys, component_id, name)
            IN  IF dest.status # "ok" THEN Fails(dest.status)
                ELSE
                    LET made == mkdir_parents(dest.fs, Parent(dest.path))
                        copied == copy2(made.fs, file_path, dest.path)
                    IN  IF made.status # "ok"
                        THEN [status |-> made.status,
                              fs |-> Logged(made.fs), ret |-> <<>>]
                        ELSE IF copied.status # "ok"
                        THEN [status |-> "OSError",
                              fs |-> Logged(made.fs), ret |-> <<>>]
                        ELSE [status |-> "ok", fs |-> Logged(copied.fs),
                              ret |-> dest.path]

\* Arguments of store_datasheet: component identifiers (plain, with "/" and
\* with ".."), and the files a user may drop.
DatasheetIds ==
    { <<>>, <<"A">>, <<"B">>, <<"A", "/", "B">>, <<".", ".", "/", "x">>,
      <<".", ".">> }

DatasheetSources ==
    { SourceDir \o <<PdfName>>, SourceDir \o << <<"v","2">>, PdfName >>,
      SourceDir \o <<UpperPdfName>>, SourceDir \o <<TxtName>>,
      SourceDir \o <<MissingName>> }

\* datasheet_viewer.py : DatasheetViewer.dropEvent, the user answering Yes.
\* datetime.now().strftime(...) is the clock reading; a str ends with ".pdf".
BackupsName == <<"b","a","c","k","u","p","s">>

Timestamp(t) == <<DigitChars[t + 1]>>

EndsWithPdf(name) ==
    /\ Len(name) >= 4
    /\ SubSeq(name, Len(name) - 3, Len(name)) = <<".", "p", "d", "f">>

\* The message dropEvent ends with, and the file system afterwards.
replace_datasheet(fsys, t, datasheet_path, pdf_path) ==
    LET name == datasheet_path[Len(datasheet_path)]
        backup_dir == Parent(datasheet_path) \o <<BackupsName>>
        made == mkdir(fsys, backup_dir)
        backup_path == backup_dir \o <<Timestamp(t) \o <<"_">> \o name>>
        saved == IF IsFile(made.fs, datasheet_path)
                 THEN copy2(made.fs, datasheet_path, backup_path)
                 ELSE [status |-> "ok", fs |-> made.fs]
        copied == copy2(saved.fs, pdf_path, datasheet_path)
    IN  IF ~EndsWithPdf(lower(pdf_path[Len(pdf_path)]))
        THEN [status |-> "Invalid File", fs |-> fsys]
        ELSE IF ~(IsFile(fsys, pdf_path) \/ IsDir(fsys, pdf_path))
        THEN [status |-> "File not found", fs |-> fsys]
        ELSE IF made.status # "ok"
        THEN [status |-> "File Error", fs |-> fsys]
        ELSE IF saved.status # "ok"
        THEN [status |-> "File Error", fs |-> made.fs]
        ELSE IF copied.status # "ok"
        THEN [status |-> "File Error", fs |-> saved.fs]
        ELSE [status |-> "Success", fs |-> copied.fs]

\* Arguments of the replacement of a datasheet: one component, and the
\* files a user may pick for it.
ReplaceIds == { <<"A">> }

ReplaceSources ==
    { SourceDir \o <<PdfName>>, SourceDir \o << <<"v","2">>, PdfName >>,
      SourceDir \o <<TxtName>> }

\* The stored datasheets a viewer can be open on: the files of a component
\* directory.
StoredDatasheets(fsys) ==
    {f.path : f \in {g \in fsys.files :
                        /\ Len(g.path) = Len(BasePath) + 2
                        /\ SubSeq(g.path, 1, Len(BasePath)) = BasePath}}

NoDsCall ==
    [op |-> "none", component_id |-> <<>>, file_path |-> <<>>,
     status |-> "none", ret |-> <<>>]

\* No pure helper has been called.
NoFn == [fn |-> "none", args |-> [none |-> TRUE], state |-> "done",
         ret |-> [none |-> TRUE]]

(***************************************************************************)
(* security_utils.py : validate_file_path.  No symbolic links: resolve()   *)
(* makes the path absolute from the working directory and removes "." and  *)
(* ".." part by part, whether or not the directories exist.                *)
(***************************************************************************)
\* The working directory of the process.
Cwd == << <<"d","a","t","a">> >>

\* str(path) of an absolute path.
RECURSIVE PathStr(_)
PathStr(parts) ==
    IF parts = <<>> THEN <<"/">>
    ELSE IF Len(parts) = 1 THEN <<"/">> \o parts[1]
    ELSE PathStr(Parent(parts)) \o <<"/">> \o parts[Len(parts)]

RECURSIVE Collapse(_, _)
Collapse(done, rest) ==
    IF rest = <<>> THEN done
    ELSE IF Head(rest) = <<".", ".">>
         THEN Collapse(Parent(done), Tail(rest))
    ELSE Collapse(done \o <<Head(rest)>>, Tail(rest))

HasNul(s) == \E i \in 1..Len(s) : s[i] = NUL

\* Path(s).resolve(): ValueError for an embedded null character.
Path_resolve(s) ==
    IF HasNul(s) THEN [raised |-> TRUE, parts |-> <<>>]
    ELSE [raised |-> FALSE, parts |-> Collapse(<<>>, Join(Cwd, s))]

\* str.startswith.
startswith(s, prefix) ==
    Len(prefix) <= Len(s) /\ SubSeq(s, 1, Len(prefix)) = prefix

validate_file_path(file_path, base_directory) ==
    LET f == Path_resolve(file_path)
        b == Path_resolve(base_directory)
    IN  IF f.raised \/ b.raised THEN FALSE
        ELSE startswith(PathStr(f.parts), PathStr(b.parts))

\* Path texts: one or two parts joined by "/", relative or under /data.
PathSegments ==
    { BasePath[2], BasePath[2] \o <<"2">>, <<"A">>, <<".", ".">> }

RelativePaths ==
    PathSegments
        \cup {a \o <<"/">> \o b : a \in PathSegments, b \in PathSegments}

FilePathInputs ==
    RelativePaths
        \cup { <<>>, PathStr(BasePath), PathStr(BasePath) \o <<"/">>,
               PathStr(BasePath) \o <<"2">>, PathStr(SourceDir),
               BasePath[2] \o <<"/", NUL>> }

BaseDirectoryInputs ==
    { BasePath[2], PathStr(BasePath), PathStr(BasePath) \o <<"/">>,
      BasePath[2] \o <<"/", "A">> }

(***************************************************************************)
(* security_utils.py : RateLimiter.  Times are whole seconds; the          *)
(* defaultdict requests gives the empty list for an identifier not seen.   *)
(***************************************************************************)
MAX_API_REQUESTS_PER_MINUTE == 10

SupplierNames == {"digikey", "mouser", "lcsc"}

LimiterIds == {"test_api", "other_api"}

\* RateLimiter.__init__
RateLimiter(max_requests, time_window_seconds) ==
    [max_requests |-> max_requests,
     time_window |-> time_window_seconds,
     requests |-> [id \in LimiterIds \cup SupplierNames |-> <<>>]]

\* The requests of an identifier still inside the window at time t.
InWindow(rl, t, identifier) ==
    SelectSeq(rl.requests[identifier],
              LAMBDA req_time : t - req_time < rl.time_window)

\* allow_request as it would be if the limit were compared with > .
allow_request_gt(rl, t, identifier) ==
    LET kept == InWindow(rl, t, identifier)
    IN  IF Len(kept) > rl.max_requests
        THEN [ret |-> FALSE, rl |-> [rl EXCEPT !.requests[identifier] = kept]]
        ELSE [ret |-> TRUE,
              rl |-> [rl EXCEPT !.requests[identifier] = Append(kept, t)]]

\* RateLimiter.allow_request at clock reading t: the value returned and the
\* limiter afterwards.
allow_request(rl, t, identifier) ==
    LET kept == InWindow(rl, t, identifier)
    IN  IF Len(kept) >= rl.max_requests
        THEN [ret |-> FALSE, rl |-> [rl EXCEPT !.requests[identifier] = kept]]
        ELSE [ret |-> TRUE,
              rl |-> [rl EXCEPT !.requests[identifier] = Append(kept, t)]]

\* min() of a non-empty list of times.
Oldest(times) ==
    CHOOSE t \in {times[i] : i \in 1..Len(times)} :
        \A i \in 1..Len(times) : t <= times[i]

\* RateLimiter.get_wait_time: the clock is read at t1 inside allow_request
\* and again at t2 >= t1 for the wait.
get_wait_time(rl, t1, t2, identifier) ==
    LET tried == allow_request(rl, t1, identifier)
        mine == tried.rl.requests[identifier]
    IN  IF tried.ret
        THEN [ret |-> 0,
              rl |-> [tried.rl EXCEPT !.requests[identifier] =
                                          SubSeq(mine, 1, Len(mine) - 1)]]
        ELSE IF mine # <<>>
        THEN LET wait_seconds == Oldest(mine) + rl.time_window - t2
             IN  [ret |-> IF wait_seconds > 0 THEN wait_seconds ELSE 0,
                  rl |-> tried.rl]
        ELSE [ret |-> 0, rl |-> tried.rl]

\* Configurations of the limiter under test.
MaxRequestsInputs == {0, 1, 3}

TimeWindowInputs == {1, 2}

NoRlCall ==
    [method |-> "none", identifier |-> "", ret |-> FALSE, wait |-> 0, at |-> 0]

NoneAllowed == [id \in LimiterIds |-> <<>>]

(***************************************************************************)
(* suppliers : DigiKeySupplier, MouserSupplier, LCSCSupplier (the same     *)
(* code but for names) and SupplierManager.                                *)
(***************************************************************************)
\* os.getenv of the key: unset, the placeholder of the sample file, a key.
ApiKeys == { None, Some(<<"Y","o","u","r","_","k","e","y">>),
             Some(<<"k","1">>) }

\* not self.api_key or 'your_' in self.api_key.lower()
KeyMissing(api_key) ==
    \/ api_key = None
    \/ api_key[1] = <<>>
    \/ Contains(lower(api_key[1]), <<"y","o","u","r","_">>)

\* A supplier after __init__.
Supplier(api_key) ==
    [api_key |-> api_key,
     rate_limiter |-> RateLimiter(MAX_API_REQUESTS_PER_MINUTE, 60)]

\* get_part_info as it would be with the request the comments describe.
get_part_info_fetching(sup, name, t, part_number) ==
    IF ~validate_part_number(part_number)
    THEN [ret |-> None, raised |-> FALSE, log |-> "Invalid part number",
          supplier |-> sup]
    ELSE IF KeyMissing(sup.api_key)
    THEN [ret |-> None, raised |-> FALSE, log |-> "key not configured",
          supplier |-> sup]
    ELSE LET tried == allow_request(sup.rate_limiter, t, name)
         IN  IF ~tried.ret
             THEN [ret |-> None, raised |-> FALSE,
                   log |-> "rate limit exceeded",
                   supplier |->
                       [sup EXCEPT !.rate_limiter =
                            get_wait_time(tried.rl, t, t, name).rl]]
             ELSE [ret |-> Some(<<1, 1>>), raised |-> FALSE,
                   log |-> "call prepared",
                   supplier |-> [sup EXCEPT !.rate_limiter = tried.rl]]

\* get_part_info of the supplier called name, at clock reading t: the value
\* returned, whether an exception escapes, the last line logged, and the
\* supplier afterwards.
get_part_info(sup, name, t, part_number) ==
    IF ~validate_part_number(part_number)
    THEN [ret |-> None, raised |-> FALSE, log |-> "Invalid part number",
          supplier |-> sup]
    ELSE IF KeyMissing(sup.api_key)
    THEN [ret |-> None, raised |-> FALSE, log |-> "key not configured",
          supplier |-> sup]
    ELSE LET tried == allow_request(sup.rate_limiter, t, name)
         IN  IF ~tried.ret
             THEN [ret |-> None, raised |-> FALSE,
                   log |-> "rate limit exceeded",
                   supplier |->
                       [sup EXCEPT !.rate_limiter =
                            get_wait_time(tried.rl, t, t, name).rl]]
             ELSE [ret |-> None, raised |-> FALSE, log |-> "call prepared",
                   supplier |-> [sup EXCEPT !.rate_limiter = tried.rl]]

\* SupplierManager.get_all_prices: the mapping returned and the suppliers
\* afterwards; an exception of a supplier becomes None.
get_all_prices(sups, t, part_number) ==
    LET out == [n \in SupplierNames |->
                    get_part_info(sups[n], n, t, part_number)]
    IN  [ret |-> [n \in SupplierNames |->
                      IF out[n].raised THEN None ELSE out[n].ret],
         log |-> [n \in SupplierNames |-> out[n].log],
         suppliers |-> [n \in SupplierNames |-> out[n].supplier]]

\* Part numbers asked of the suppliers: valid, rejected, empty.
SupplierPartNumbers == { <<"A">>, <<"A", ";">>, <<>> }

NoSupCall ==
    [method |-> "none", supplier |-> "", part_number |-> <<>>,
     raised |-> FALSE, ret |-> None, log |-> ""]

\* The suppliers of a SupplierManager when no key is set in the environment.
NoKeys == [n \in SupplierNames |-> Supplier(None)]

\* The main window before any search or dialog.
NoGui == [shown |-> <<>>, message |-> "none"]

\* The supplier integrations and the user interface at start.
InitApi ==
    /\ limiter = RateLimiter(MAX_API_REQUESTS_PER_MINUTE, 60)
    /\ rlCall = NoRlCall
    /\ allowed = NoneAllowed
    /\ suppliers = NoKeys
    /\ supCall = NoSupCall

InitGui == gui = NoGui

(***************************************************************************)
(* State after Database.__init__ (init_database creates empty tables).     *)
(***************************************************************************)
NoCall ==
    [op |-> "none", args |-> [none |-> TRUE], status |-> "none",
     lastrowid |-> 0, rows |-> <<>>, at |-> 0]

\* The store, the helpers and the datasheet directory at start.
InitStore ==
    /\ components = {}
    /\ supplier_parts = {}
    /\ now = 0
    /\ lastCall = NoCall
    /\ vpInput = <<>>
    /\ vpResult = "pending"
    /\ fnCall = NoFn
    /\ fs = InitFs
    /\ dsCall = NoDsCall

Init ==
    /\ InitStore
    /\ InitApi
    /\ InitGui

(***************************************************************************)
(* Actions: one Database call each, and the passing of time.               *)
(***************************************************************************)
AddComponent ==
    \E pn \in PnInputs, f \in FieldInputs :
        LET a == [company_part_number |-> pn] @@ f
            out == add_component(components, now, a)
        IN  /\ Cardinality(out.components) <= MaxComponents
            /\ components' = out.components
            /\ lastCall' = [op |-> "add_component", args |-> a,
                            status |-> out.status,
                            lastrowid |-> out.lastrowid, rows |-> <<>>,
                            at |-> now]
            /\ UNCHANGED <<supplier_parts, now, vpInput, vpResult,
                       fnCall, fs, dsCall,
                   apiVars, guiVars>>

SearchComponents ==
    \E pf \in PnFilters, tf \in TypeFilters, vf \in ValueFilters :
        /\ lastCall' = [op |-> "search_components",
                        args |-> [pn_filter |-> pf, type_filter |-> tf,
                                  value_filter |-> vf],
                        status |-> "ok", lastrowid |-> 0,
                        rows |-> search_components(components, pf, tf, vf),
                        at |-> now]
        /\ UNCHANGED <<components, supplier_parts, now, vpInput, vpResult,
                       fnCall, fs, dsCall,
                   apiVars, guiVars>>

\* add_component and search_components on the inputs of the filter claims.
AddCatalogued ==
    \E pn \in SearchPnInputs, f \in SearchFieldInputs :
        LET a == [company_part_number |-> pn] @@ f
            out == add_component(components, now, a)
        IN  /\ Cardinality(out.components) <= MaxComponents
            /\ components' = out.components
            /\ lastCall' = [op |-> "add_component", args |-> a,
                            status |-> out.status,
                            lastrowid |-> out.lastrowid, rows |-> <<>>,
                            at |-> now]
            /\ UNCHANGED <<supplier_parts, now, vpInput, vpResult,
                           fnCall, fs, dsCall,
                   apiVars, guiVars>>

SearchFiltered ==
    \E pf \in SearchPnFilters, tf \in SearchTypeFilters,
       vf \in SearchValueFilters :
        /\ lastCall' = [op |-> "search_components",
                        args |-> [pn_filter |-> pf, type_filter |-> tf,
                                  value_filter |-> vf],
                        status |-> "ok", lastrowid |-> 0,
                        rows |-> search_components(components, pf, tf, vf),
                        at |-> now]
        /\ UNCHANGED <<components, supplier_parts, now, vpInput, vpResult,
                       fnCall, fs, dsCall,
                   apiVars, guiVars>>

\* The Search button: SearchPanel.on_search emits the two texts and
\* MainWindow.perform_search shows the rows found.
PerformSearch ==
    \E tf \in PanelTypes, vf \in PanelValues :
        /\ gui' = [gui EXCEPT
                       !.shown = perform_search(components, tf, vf),
                       !.message = "none"]
        /\ lastCall' = [op |-> "perform_search",
                        args |-> [type_filter |-> tf, value_filter |-> vf],
                        status |-> "ok", lastrowid |-> 0, rows |-> <<>>,
                        at |-> now]
        /\ UNCHANGED <<components, supplier_parts, now, vpInput, vpResult,
                       fnCall, fs, dsCall, apiVars>>

\* The Add Component dialog, confirmed or cancelled.  After a successful
\* insert database_updated makes the main window show every component.
ShowAddComponentDialog ==
    \E confirmed \in BOOLEAN, pn \in DialogPnInputs,
       f \in DialogFieldInputs :
        LET data == [company_part_number |-> pn] @@ f
            out == show_add_component_dialog(components, now, data)
        IN  IF confirmed
            THEN /\ Cardinality(out.components) <= MaxComponents
                 /\ components' = out.components
                 /\ gui' = [shown |-> IF out.status = "ok"
                                      THEN perform_search(out.components,
                                                          All, <<>>)
                                      ELSE gui.shown,
                            message |-> out.message]
                 /\ lastCall' = [op |-> "show_add_component_dialog",
                                 args |-> data, status |-> out.status,
                                 lastrowid |-> 0, rows |-> <<>>, at |-> now]
                 /\ UNCHANGED <<supplier_parts, now, vpInput, vpResult,
                                fnCall, fs, dsCall, apiVars>>
            ELSE /\ lastCall' = [op |-> "show_add_component_dialog",
                                 args |-> data, status |-> "cancelled",
                                 lastrowid |-> 0, rows |-> <<>>, at |-> now]
                 /\ UNCHANGED <<components, supplier_parts, now, vpInput,
                                vpResult, fnCall, fs, dsCall, apiVars,
                                guiVars>>

UpdateSupplierInfo ==
    \E cid \in ComponentIdInputs, sup \in SupplierInputs, q \in QuoteInputs :
        LET a == [component_id |-> cid, supplier |-> sup] @@ q
            out == update_supplier_info(supplier_parts, now, a)
        IN  /\ Cardinality(out.supplier_parts) <= MaxQuotes
            /\ supplier_parts' = out.supplier_parts
            /\ lastCall' = [op |-> "update_supplier_info", args |-> a,
                            status |-> out.status, lastrowid |-> 0,
                            rows |-> <<>>, at |-> now]
            /\ UNCHANGED <<components, now, vpInput, vpResult,
                       fnCall, fs, dsCall,
                   apiVars, guiVars>>

\* CURRENT_TIMESTAMP moves on by one second.
Tick ==
    /\ now < MaxTime
    /\ now' = now + 1
    /\ UNCHANGED <<components, supplier_parts, lastCall, vpInput, vpResult,
                       fnCall, fs, dsCall,
                   apiVars, guiVars>>

\* One call of validate_part_number on the chosen input.
CallValidatePartNumber ==
    /\ vpResult = "pending"
    /\ vpResult' = IF validate_part_number(vpInput) THEN "True" ELSE "False"
    /\ UNCHANGED <<components, supplier_parts, now, lastCall, vpInput,
                   fnCall, fs, dsCall,
                   apiVars, guiVars>>

\* One call of _parse_value_and_unit on the arguments drawn at the start.
ParseValueAndUnit ==
    /\ fnCall.fn = "_parse_value_and_unit"
    /\ fnCall.state = "pending"
    /\ \E r \in parse_value_and_unit(fnCall.args.value_str,
                                      fnCall.args.component_type) :
           fnCall' = [fnCall EXCEPT !.state = "done", !.ret = r]
    /\ UNCHANGED <<components, supplier_parts, now, lastCall, vpInput,
                   vpResult, fs, dsCall,
                   apiVars, guiVars>>

\* One call of sanitize_string on the arguments drawn at the start.
SanitizeString ==
    /\ fnCall.fn = "sanitize_string"
    /\ fnCall.state = "pending"
    /\ fnCall' = [fnCall EXCEPT
                      !.state = "done",
                      !.ret = [raised |-> FALSE,
                               value |-> sanitize_string(
                                             fnCall.args.input_string,
                                             fnCall.args.max_length)]]
    /\ UNCHANGED <<components, supplier_parts, now, lastCall, vpInput,
                   vpResult, fs, dsCall,
                   apiVars, guiVars>>

\* One call of validate_file_path.
ValidateFilePath ==
    /\ fnCall.fn = "validate_file_path"
    /\ fnCall.state = "pending"
    /\ fnCall' = [fnCall EXCEPT
                      !.state = "done",
                      !.ret = [raised |-> FALSE,
                               value |-> validate_file_path(
                                             fnCall.args.file_path,
                                             fnCall.args.base_directory)]]
    /\ UNCHANGED <<components, supplier_parts, now, lastCall, vpInput,
                   vpResult, fs, dsCall,
                   apiVars, guiVars>>

\* One call of DatasheetManager.store_datasheet.
StoreDatasheet ==
    \E id \in DatasheetIds, src \in DatasheetSources :
        LET out == store_datasheet(fs, id, src)
        IN  /\ LogLines(fs) < MaxStores
            /\ fs' = out.fs
            /\ dsCall' = [op |-> "store_datasheet", component_id |-> id,
                          file_path |-> src, status |-> out.status,
                          ret |-> out.ret]
            /\ UNCHANGED <<components, supplier_parts, now, lastCall,
                           vpInput, vpResult, fnCall,
                   apiVars, guiVars>>

\* One call of DatasheetManager.get_datasheet_path.
GetDatasheetPath ==
    \E id \in DatasheetIds, filename \in {PdfName, UpperPdfName, TxtName} :
        LET out == get_datasheet_path(fs, id, filename)
        IN  /\ fs' = out.fs
            /\ dsCall' = [op |-> "get_datasheet_path", component_id |-> id,
                          file_path |-> <<filename>>, status |-> out.status,
                          ret |-> IF out.status = "ok" THEN out.path
                                  ELSE <<>>]
            /\ UNCHANGED <<components, supplier_parts, now, lastCall,
                           vpInput, vpResult, fnCall,
                   apiVars, guiVars>>

\* store_datasheet for the component whose datasheet gets replaced.
StoreForComponent ==
    \E id \in ReplaceIds, src \in ReplaceSources :
        LET out == store_datasheet(fs, id, src)
        IN  /\ LogLines(fs) < MaxStores
            /\ fs' = out.fs
            /\ dsCall' = [op |-> "store_datasheet", component_id |-> id,
                          file_path |-> src, status |-> out.status,
                          ret |-> out.ret]
            /\ UNCHANGED <<components, supplier_parts, now, lastCall,
                           vpInput, vpResult, fnCall,
                   apiVars, guiVars>>

\* A PDF dropped on the viewer of a stored datasheet, and Yes answered.
ViewerDrop ==
    \E datasheet_path \in StoredDatasheets(fs), src \in ReplaceSources :
        LET out == replace_datasheet(fs, now, datasheet_path, src)
        IN  /\ fs' = out.fs
            /\ dsCall' = [op |-> "dropEvent", component_id |-> <<>>,
                          file_path |-> src, status |-> out.status,
                          ret |-> datasheet_path]
            /\ UNCHANGED <<components, supplier_parts, now, lastCall,
                           vpInput, vpResult, fnCall,
                   apiVars, guiVars>>

\* One call of get_part_info of one supplier.
GetPartInfo ==
    \E n \in SupplierNames, pn \in SupplierPartNumbers :
        LET out == get_part_info(suppliers[n], n, now, pn)
        IN  /\ suppliers' = [suppliers EXCEPT ![n] = out.supplier]
            /\ supCall' = [method |-> "get_part_info", supplier |-> n,
                           part_number |-> pn, raised |-> out.raised,
                           ret |-> out.ret, log |-> out.log]
            /\ UNCHANGED <<storeVars, limiter, rlCall, allowed, guiVars>>

\* One call of SupplierManager.get_all_prices.
GetAllPrices ==
    \E pn \in SupplierPartNumbers :
        LET out == get_all_prices(suppliers, now, pn)
        IN  /\ suppliers' = out.suppliers
            /\ supCall' = [method |-> "get_all_prices", supplier |-> "",
                           part_number |-> pn, raised |-> FALSE,
                           ret |-> out.ret, log |-> out.log]
            /\ UNCHANGED <<storeVars, limiter, rlCall, allowed, guiVars>>

\* One call of RateLimiter.allow_request.
AllowRequest ==
    \E id \in LimiterIds :
        LET out == allow_request(limiter, now, id)
        IN  /\ limiter' = out.rl
            /\ rlCall' = [method |-> "allow_request", identifier |-> id,
                          ret |-> out.ret, wait |-> 0, at |-> now]
            /\ allowed' = IF out.ret
                          THEN [allowed EXCEPT ![id] = Append(@, now)]
                          ELSE allowed
            /\ UNCHANGED <<storeVars, suppliers, supCall, guiVars>>

\* One call of RateLimiter.get_wait_time; the clock may move on between its
\* two readings.
GetWaitTime ==
    \E id \in LimiterIds, t2 \in {now, now + 1} :
        LET out == get_wait_time(limiter, now, t2, id)
        IN  /\ t2 <= MaxTime
            /\ limiter' = out.rl
            /\ rlCall' = [method |-> "get_wait_time", identifier |-> id,
                          ret |-> FALSE, wait |-> out.ret, at |-> t2]
            /\ now' = t2
            /\ UNCHANGED <<components, supplier_parts, lastCall, vpInput,
                           vpResult, fnCall, fs, dsCall, allowed, suppliers,
                           supCall, guiVars>>

(***************************************************************************)
(* Specifications.                                                         *)
(***************************************************************************)
\* The components table: add_component and search_components.
NextStore == AddComponent \/ SearchComponents

SpecStore == Init /\ [][NextStore]_vars

\* The supplier_parts table: update_supplier_info over time.
NextQuotes == UpdateSupplierInfo \/ Tick

SpecQuotes == Init /\ [][NextQuotes]_vars

\* Both tables: add_component and update_supplier_info in any order.
NextTables == AddCatalogued \/ UpdateSupplierInfo

SpecTables == Init /\ [][NextTables]_vars

\* validate_part_number applied to each input.
InitValidate ==
    /\ components = {}
    /\ supplier_parts = {}
    /\ now = 0
    /\ lastCall = NoCall
    /\ vpInput \in PartNumberInputs
    /\ vpResult = "pending"
    /\ fnCall = NoFn
    /\ fs = InitFs
    /\ dsCall = NoDsCall
    /\ InitApi
    /\ InitGui

NextValidate == CallValidatePartNumber

SpecValidate == InitValidate /\ [][NextValidate]_vars

\* The search filters: a small catalogue, every combination of filters.
NextSearch == AddCatalogued \/ SearchFiltered

SpecSearch == Init /\ [][NextSearch]_vars

\* The search panel over a store that is being filled.
NextPanel == AddCatalogued \/ PerformSearch

SpecPanel == Init /\ [][NextPanel]_vars

\* The Add Component dialog over a store that is being filled.
NextDialog == AddCatalogued \/ ShowAddComponentDialog

SpecDialog == Init /\ [][NextDialog]_vars

\* A pure helper about to be called with one of the given argument records.
InitHelper(fn, argsSet) ==
    /\ components = {}
    /\ supplier_parts = {}
    /\ now = 0
    /\ lastCall = NoCall
    /\ vpInput = <<>>
    /\ vpResult = "none"
    /\ fnCall \in {[fn |-> fn, args |-> a, state |-> "pending",
                     ret |-> [none |-> TRUE]] : a \in argsSet}
    /\ fs = InitFs
    /\ dsCall = NoDsCall
    /\ InitApi
    /\ InitGui

\* _parse_value_and_unit applied to each value text and component type.
InitParse ==
    InitHelper("_parse_value_and_unit",
               {[value_str |-> s, component_type |-> t] :
                    s \in ValueInputs, t \in ComponentTypes})

NextParse == ParseValueAndUnit

SpecParse == InitParse /\ [][NextParse]_vars

\* sanitize_string applied to each text and max_length.
InitSanitize ==
    InitHelper("sanitize_string",
               {[input_string |-> s, max_length |-> n] :
                    s \in SanitizeInputs, n \in MaxLengths})

NextSanitize == SanitizeString

SpecSanitize == InitSanitize /\ [][NextSanitize]_vars

\* validate_file_path applied to each pair of path texts.
InitFilePath ==
    InitHelper("validate_file_path",
               {[file_path |-> f, base_directory |-> b] :
                    f \in FilePathInputs, b \in BaseDirectoryInputs})

NextFilePath == ValidateFilePath

SpecFilePath == InitFilePath /\ [][NextFilePath]_vars

\* The datasheet store: store_datasheet on a fresh base directory.
NextDatasheets == StoreDatasheet

SpecDatasheets == Init /\ [][NextDatasheets]_vars

\* The datasheet paths: get_datasheet_path on a fresh base directory.
NextPaths == GetDatasheetPath

SpecPaths == Init /\ [][NextPaths]_vars

\* Replacing a datasheet: by store_datasheet or in the viewer, as time
\* passes.
NextReplace == StoreForComponent \/ ViewerDrop \/ Tick

SpecReplace == Init /\ [][NextReplace]_vars

\* The suppliers with each configuration of API keys.
InitSuppliers ==
    /\ InitStore
    /\ limiter = RateLimiter(MAX_API_REQUESTS_PER_MINUTE, 60)
    /\ rlCall = NoRlCall
    /\ allowed = NoneAllowed
    /\ suppliers \in [SupplierNames -> {Supplier(k) : k \in ApiKeys}]
    /\ supCall = NoSupCall
    /\ InitGui

NextSuppliers == GetPartInfo \/ GetAllPrices

SpecSuppliers == InitSuppliers /\ [][NextSuppliers]_vars

\* A RateLimiter of each configuration, called as time passes.
InitLimiter ==
    /\ InitStore
    /\ limiter \in {RateLimiter(m, w) :
                        m \in MaxRequestsInputs, w \in TimeWindowInputs}
    /\ rlCall = NoRlCall
    /\ allowed = NoneAllowed
    /\ suppliers = NoKeys
    /\ supCall = NoSupCall
    /\ InitGui

NextLimiter == AllowRequest \/ GetWaitTime \/ Tick

SpecLimiter == InitLimiter /\ [][NextLimiter]_vars

\* Every operation of the model.
Next ==
    \/ AddComponent \/ SearchComponents \/ UpdateSupplierInfo \/ Tick
    \/ AddCatalogued \/ SearchFiltered \/ StoreDatasheet

Spec == Init /\ [][Next]_vars

(***************************************************************************)
(* Properties.                                                             *)
(***************************************************************************)
IsAdd == lastCall.op = "add_component"
IsSearch == lastCall.op = "search_components"
IsUpdate == lastCall.op = "update_supplier_info"

\* The rows of supplier_parts for the pair of row r.
QuotesOfPair(cid, sup) ==
    {r \in supplier_parts : r.component_id = cid /\ r.supplier = sup}

\* C1: supplier_parts holds at most one row per (component_id, supplier)
\* pair, and after a successful update_supplier_info the one row of its pair
\* carries the part number, price, stock and timestamp of that call.
C1_OneQuotePerPair ==
    /\ \A r \in supplier_parts :
           Cardinality(QuotesOfPair(r.component_id, r.supplier)) <= 1
    /\ (IsUpdate /\ lastCall.status = "ok") =>
           \A r \in QuotesOfPair(int(lastCall.args.component_id),
                                 sanitize_string(lastCall.args.supplier, 50)) :
               /\ r.supplier_part_number =
                      sanitize_string(lastCall.args.part_number, 100)
               /\ r.price = IF lastCall.args.price.kind = "none" THEN None
                            ELSE Some(float(lastCall.args.price))
               /\ r.stock = IF lastCall.args.stock.kind = "none" THEN None
                            ELSE Some(int(lastCall.args.stock))
               /\ r.last_updated = lastCall.at

\* Both stock arguments of an add_component call pass the int() coercion.
StocksCoercible(a) ==
    /\ a.stock.kind = "none" \/ IntCoercible(a.stock)
    /\ a.minimum_stock.kind = "none" \/ IntCoercible(a.minimum_stock)

\* C2: add_component called with an identifier that is already stored (the
\* other arguments being acceptable) fails with the uniqueness violation,
\* which is not the validation error, and leaves the table as it was.
C2_DuplicateIsUniquenessViolation ==
    [][ ( /\ lastCall'.op = "add_component"
          /\ StocksCoercible(lastCall'.args)
          /\ \E r \in components :
                 r.company_part_number = lastCall'.args.company_part_number )
        => ( /\ lastCall'.status = "IntegrityError"
             /\ components' = components ) ]_vars

\* C3: no two component rows have the same stored identifier and no
\* component row has an empty stored identifier.
C3_IdentifierUniqueNonEmpty ==
    \A r \in components :
        /\ r.company_part_number # <<>>
        /\ \A q \in components :
               q.company_part_number = r.company_part_number => q = r

\* C4: every stored component row has stock >= 0 and minimum_stock >= 0.
C4_StockNonNegative ==
    \A r \in components : r.stock >= 0 /\ r.minimum_stock >= 0

\* The last call searched by exactly the identifier of stored row r, with
\* no other filter.
SearchedExactly(r) ==
    /\ IsSearch
    /\ lastCall.args.pn_filter = Some(r.company_part_number)
    /\ lastCall.args.type_filter = None
    /\ lastCall.args.value_filter = None

\* Positions of the result whose identifier is pn.
HitsOf(pn) ==
    {i \in 1..Len(lastCall.rows) : lastCall.rows[i].company_part_number = pn}

\* C5 as stated: a search by the exact identifier of a stored component
\* returns exactly one row, equal in every field to the stored row.
C5_ExactSearchReturnsOneRow ==
    \A r \in components :
        SearchedExactly(r) => lastCall.rows = <<r>>

\* C5 amended: a search by the exact identifier of a stored component
\* returns exactly one row with that identifier, equal in every field to
\* the stored row (other rows, whose identifiers match the LIKE pattern,
\* may be returned with it).
C5_ExactSearchContainsTheRow ==
    \A r \in components :
        SearchedExactly(r) =>
            /\ Cardinality(HitsOf(r.company_part_number)) = 1
            /\ \A i \in HitsOf(r.company_part_number) : lastCall.rows[i] = r

\* A search by a stored, non-empty identifier that returned that row and
\* another one.
C5_Witness ==
    \E r \in components :
        /\ SearchedExactly(r)
        /\ r.company_part_number # <<>>
        /\ Len(lastCall.rows) >= 2
        /\ \E i \in 1..Len(lastCall.rows) : lastCall.rows[i] = r

\* C6: add_component with an identifier validate_part_number rejects, or
\* with a stock or minimum_stock that is not integer-coercible, raises an
\* error and leaves the components table exactly as it was.
C6_RejectedAddRaises ==
    [][ ( /\ lastCall'.op = "add_component"
          /\ \/ ~validate_part_number(lastCall'.args.company_part_number)
             \/ ~StocksCoercible(lastCall'.args) )
        => ( /\ lastCall'.status = "ValueError"
             /\ components' = components ) ]_vars

\* A rejected identifier was handed to add_component on a table that
\* holds rows, and the call raised.
C6_Witness ==
    /\ IsAdd
    /\ ~validate_part_number(lastCall.args.company_part_number)
    /\ lastCall.status = "ValueError"
    /\ components # {}

\* C7: whenever add_component succeeds, the identifier stored in the new
\* row is character for character the identifier the caller passed.
C7_IdentifierStoredVerbatim ==
    (IsAdd /\ lastCall.status = "ok") =>
        \E r \in components :
            /\ r.id = lastCall.lastrowid
            /\ r.company_part_number = lastCall.args.company_part_number

\* C8: validate_part_number returns False for the SQL and path-traversal
\* inputs the security test prints as Invalid, and True for "ONX-CAP-001",
\* "ABC-123" and "LM5166".
C8_TestVerdicts ==
    vpResult # "pending" =>
        /\ vpInput \in RejectedSamples => vpResult = "False"
        /\ vpInput \in AcceptedSamples => vpResult = "True"

\* s contains blocklist entry k in some letter case.
ContainsAnyCase(s, k) == Contains(upper(s), upper(sql_patterns[k]))

\* C9: validate_part_number returns False for every string that contains,
\* in any letter case, an entry of the blocklist, for the empty string and
\* for every string longer than 100 characters.
C9_BlocklistRejected ==
    ( /\ vpResult # "pending"
      /\ \/ vpInput = <<>>
         \/ Len(vpInput) > 100
         \/ \E k \in 1..Len(sql_patterns) : ContainsAnyCase(vpInput, k) )
    => vpResult = "False"

\* C10: the rows search_components returns are in ascending order of
\* identifier, whatever the filters.
C10_ResultsAscending ==
    IsSearch =>
        \A i, j \in 1..Len(lastCall.rows) :
            i < j => ~BinaryLess(lastCall.rows[j].company_part_number,
                                 lastCall.rows[i].company_part_number)

\* A search returned two rows in an order that is not the order in which
\* they were inserted.
C10_Witness ==
    /\ IsSearch
    /\ Len(lastCall.rows) >= 2
    /\ lastCall.rows[1].id > lastCall.rows[2].id

\* The filters of the last search.
PnFilter == lastCall.args.pn_filter
TypeFilter == lastCall.args.type_filter
ValueFilter == lastCall.args.value_filter

\* The rows of a result, as a set.
RowSet(rows) == {rows[i] : i \in 1..Len(rows)}

\* C11: search_components with no filters returns every stored row, and with
\* the category filter "All" it returns what the same call returns with no
\* category filter, whatever the identifier and value filters.
C11_AllIsNoCategoryFilter ==
    IsSearch =>
        /\ (PnFilter = None /\ TypeFilter = None /\ ValueFilter = None) =>
               /\ RowSet(lastCall.rows) = components
               /\ Len(lastCall.rows) = Cardinality(components)
        /\ TypeFilter = Some(All) =>
               lastCall.rows =
                   search_components(components, PnFilter, None, ValueFilter)

\* A search with category "All" returned rows of two different categories.
C11_Witness ==
    /\ IsSearch
    /\ TypeFilter = Some(All)
    /\ \E i, j \in 1..Len(lastCall.rows) :
           lastCall.rows[i].type # lastCall.rows[j].type

\* C12 as stated: an identifier filter that fails validate_part_number is
\* dropped: the call returns the rows of the same call without it.
C12_RejectedFilterDropped ==
    (IsSearch /\ PnFilter # None /\ ~validate_part_number(PnFilter[1])) =>
        /\ lastCall.status = "ok"
        /\ lastCall.rows =
               search_components(components, None, TypeFilter, ValueFilter)

\* C12 amended: an identifier filter whose sanitized form (stripped, cut to
\* 100 characters, NUL removed) fails validate_part_number is dropped: the
\* call raises nothing and returns the rows of the same call without it.
C12_RejectedSanitizedFilterDropped ==
    ( /\ IsSearch
      /\ PnFilter # None
      /\ ~validate_part_number(sanitize_string(strip(PnFilter[1]), 100)) ) =>
        /\ lastCall.status = "ok"
        /\ lastCall.rows =
               search_components(components, None, TypeFilter, ValueFilter)

\* A search with the rejected filter "A;" alone returned rows, none of which
\* contains that text.
C12_Witness ==
    /\ IsSearch
    /\ PnFilter = Some(<<"A",";">>)
    /\ TypeFilter = None
    /\ ValueFilter = None
    /\ Len(lastCall.rows) >= 2

\* A filter that is present but empty or only whitespace.
Blank(f) == f # None /\ strip(f[1]) = <<>>

\* C13: a filter that is empty or only whitespace gives the rows of the same
\* call with that filter absent, for each of the three filters.
C13_BlankFilterIsAbsent ==
    IsSearch =>
        /\ Blank(PnFilter) =>
               lastCall.rows =
                   search_components(components, None, TypeFilter,
                                     ValueFilter)
        /\ Blank(TypeFilter) =>
               lastCall.rows =
                   search_components(components, PnFilter, None, ValueFilter)
        /\ Blank(ValueFilter) =>
               lastCall.rows =
                   search_components(components, PnFilter, TypeFilter, None)

\* text contains f as a contiguous substring, letters compared without
\* regard to ASCII case (the reading most favourable to a LIKE match).
ContainsNoCase(text, f) == Contains(upper(text), upper(f))

\* C14: a non-blank value filter alone returns exactly the rows whose stored
\* value contains it as a contiguous substring, and a valid non-blank
\* identifier filter alone exactly the rows whose identifier contains it: no
\* character of the filter is a wildcard.  (The filter is taken without its
\* surrounding whitespace, containment without regard to ASCII case.)
C14_FilterIsPlainSubstring ==
    IsSearch =>
        /\ ( /\ PnFilter = None /\ TypeFilter = None
             /\ ValueFilter # None /\ ~Blank(ValueFilter) ) =>
               RowSet(lastCall.rows) =
                   {r \in components :
                       ContainsNoCase(r.value, strip(ValueFilter[1]))}
        /\ ( /\ ValueFilter = None /\ TypeFilter = None
             /\ PnFilter # None /\ ~Blank(PnFilter)
             /\ validate_part_number(PnFilter[1]) ) =>
               RowSet(lastCall.rows) =
                   {r \in components :
                       ContainsNoCase(r.company_part_number,
                                      strip(PnFilter[1]))}

\* The last call of _parse_value_and_unit has returned or raised.
Parsed == fnCall.fn = "_parse_value_and_unit" /\ fnCall.state = "done"

ValueStr == fnCall.args.value_str

ComponentType == fnCall.args.component_type

\* The value text is a number (digits with at most one dot) followed by a
\* suffix without digits or dots; NumberOf and SuffixOf are its two parts.
NumberLen(s) ==
    CHOOSE i \in 0..Len(s) :
        /\ \A j \in 1..i : IsNumericChar(s[j])
        /\ i < Len(s) => ~IsNumericChar(s[i + 1])

NumberOf(s) == SubSeq(s, 1, NumberLen(s))

SuffixOf(s) == SubSeq(s, NumberLen(s) + 1, Len(s))

IsNumberThenSuffix(s) ==
    /\ FloatParses(NumberOf(s))
    /\ \A j \in 1..Len(SuffixOf(s)) : ~IsNumericChar(SuffixOf(s)[j])

\* The SI factor, as a power of ten, of a suffix: that of its first
\* character if it is a prefix letter, 10^0 otherwise.
SIExponent(suffix) ==
    IF suffix = <<>> THEN 0
    ELSE CASE suffix[1] = "p" -> 0 - 12
           [] suffix[1] = "n" -> 0 - 9
           [] suffix[1] \in {"u", "µ"} -> 0 - 6
           [] suffix[1] = "m" -> 0 - 3
           [] suffix[1] = "k" -> 3
           [] suffix[1] = "M" -> 6
           [] OTHER -> 0

\* res is v rounded to 3 decimals: a multiple of 0.001 at most 0.0005 from v.
IsRounded(res, v) ==
    IF v.e >= 0 - 3 THEN res = Normal(v)
    ELSE LET k == 0 - 3 - v.e
         IN  IF NumDigits(v.m) < k THEN res = Dec(0, 0)
             ELSE /\ res.e >= 0 - 3
                  /\ res.m # 0 =>
                         NumDigits(res.m) + res.e + 3 <= NumDigits(v.m) - k + 2
                  /\ LET t == res.m * Pow10(res.e + 3)
                         d == Pow10(k)
                     IN  /\ 2 * (t * d - v.m) <= d
                         /\ 2 * (v.m - t * d) <= d

\* C15: for a number followed by an optional suffix, the number is
\* multiplied by the SI factor of the first suffix character; Resistor gives
\* Ω below 1e3, kΩ below 1e6 (divided by 1e3), otherwise MΩ (divided by 1e6);
\* Capacitor gives µF from 1e-6, nF from 1e-9, otherwise pF; Inductor gives
\* mH from 1e-3, µH from 1e-6, otherwise nH; the value is rounded to 3
\* decimals.  "100n" Capacitor is (100.0, nF), "4.7µ" Capacitor (4.7, µF),
\* "10k" Resistor (10.0, kΩ).
C15_NumberScaledAndUnitByCategory ==
    (Parsed /\ IsNumberThenSuffix(ValueStr)) =>
        LET x == Scale(FloatOf(NumberOf(ValueStr)),
                       SIExponent(SuffixOf(ValueStr)))
            r == fnCall.ret
            Gives(unit, k) == r.unit = unit /\ IsRounded(r.value, Scale(x, k))
        IN  /\ ~r.raised
            /\ ComponentType = Resistor =>
                   IF ~AtLeastPow10(x, 3) THEN Gives("Ω", 0)
                   ELSE IF ~AtLeastPow10(x, 6) THEN Gives("kΩ", 0 - 3)
                   ELSE Gives("MΩ", 0 - 6)
            /\ ComponentType = Capacitor =>
                   IF AtLeastPow10(x, 0 - 6) THEN Gives("µF", 6)
                   ELSE IF AtLeastPow10(x, 0 - 9) THEN Gives("nF", 9)
                   ELSE Gives("pF", 12)
            /\ ComponentType = Inductor =>
                   IF AtLeastPow10(x, 0 - 3) THEN Gives("mH", 3)
                   ELSE IF AtLeastPow10(x, 0 - 6) THEN Gives("µH", 6)
                   ELSE Gives("nH", 9)
            /\ (ValueStr = <<"1","0","0","n">> /\ ComponentType = Capacitor)
                   => r = Returned(Dec(1, 2), "nF")
            /\ (ValueStr = <<"4",".","7","µ">> /\ ComponentType = Capacitor)
                   => r = Returned(Dec(47, 0 - 1), "µF")
            /\ (ValueStr = <<"1","0","k">> /\ ComponentType = Resistor)
                   => r = Returned(Dec(1, 1), "kΩ")

\* "1kM" as a Resistor has been parsed: the k is consulted, the M is not.
C15_Witness ==
    /\ Parsed
    /\ ValueStr = <<"1","k","M">>
    /\ ComponentType = Resistor
    /\ fnCall.ret = Returned(Dec(1, 0), "kΩ")

\* A component type other than Resistor, Capacitor and Inductor.
OtherType == ComponentType \notin {Resistor, Capacitor, Inductor}

\* C16 as stated: for a value text that parses and any other component
\* type, the result is the numeric literal itself, unscaled, and the empty
\* unit.
C16_OtherTypeLiteralUnscaled ==
    (Parsed /\ OtherType /\ FloatParses(numeric_part(ValueStr))) =>
        /\ ~fnCall.ret.raised
        /\ fnCall.ret.unit = ""
        /\ fnCall.ret.value = Normal(FloatOf(numeric_part(ValueStr)))

\* C16 amended: for a value text that parses and any other component type,
\* the result is the numeric literal multiplied by the SI factor of the
\* first non-numeric character, rounded to 3 decimals and not rescaled to a
\* unit, and the empty unit.
C16_OtherTypeMultipliedNotRescaled ==
    (Parsed /\ OtherType /\ FloatParses(numeric_part(ValueStr))) =>
        /\ ~fnCall.ret.raised
        /\ fnCall.ret.unit = ""
        /\ IsRounded(fnCall.ret.value,
                     Scale(FloatOf(numeric_part(ValueStr)),
                           SIExponent(unit_part(ValueStr))))

\* "1k" of an IC has been parsed to 1000.
C16_Witness ==
    /\ Parsed
    /\ ValueStr = <<"1","k">>
    /\ ComponentType = IC
    /\ fnCall.ret = Returned(Dec(1, 3), "")

\* C17: the call returns a pair and never raises; for the empty text, and
\* for a text whose numeric characters do not form a number (no digit, or
\* more than one dot), the pair is (0.0, "").
C17_NeverRaisesInvalidGivesZero ==
    Parsed =>
        /\ ~fnCall.ret.raised
        /\ ( \/ ValueStr = <<>>
             \/ \A i \in 1..Len(ValueStr) : ~IsDigit(ValueStr[i])
             \/ Cardinality({i \in 1..Len(ValueStr) : ValueStr[i] = "."}) > 1 )
               => fnCall.ret = Returned(Dec(0, 0), "")

\* "1.2.3" as a Resistor has been parsed to (0.0, "").
C17_Witness ==
    /\ Parsed
    /\ ValueStr = <<"1",".","2",".","3">>
    /\ ComponentType = Resistor
    /\ fnCall.ret = Returned(Dec(0, 0), "")

\* The last call of sanitize_string has returned or raised.
Sanitized == fnCall.fn = "sanitize_string" /\ fnCall.state = "done"

\* C18: for every text and every max_length >= 0, sanitize_string returns
\* without raising a text of at most max_length characters, with no null
\* character and no leading or trailing whitespace.
C18_SanitizedIsCleanAndBounded ==
    Sanitized =>
        LET out == fnCall.ret.value
        IN  /\ ~fnCall.ret.raised
            /\ Len(out) <= fnCall.args.max_length
            /\ \A i \in 1..Len(out) : out[i] # NUL
            /\ out # <<>> =>
                   out[1] \notin Whitespace /\ out[Len(out)] \notin Whitespace

\* "a \x00" cut to 2 characters has been sanitized to "a": the cut, the null
\* removal and the strip have each acted or been passed.
C18_Witness ==
    /\ Sanitized
    /\ fnCall.args.input_string = <<"a", " ", NUL>>
    /\ fnCall.args.max_length = 2
    /\ fnCall.ret.value = <<"a">>

\* A step that is a call of store_datasheet (every call adds a log line).
StoreStep == fs' # fs /\ dsCall'.op = "store_datasheet"

\* add_component accepts the identifier and stores it as given.
AcceptedByAdd(id) ==
    \E f \in SearchFieldInputs :
        LET out == add_component({}, 0, [company_part_number |-> id] @@ f)
        IN  /\ out.status = "ok"
            /\ \E r \in out.components : r.company_part_number = id

\* Path p lies inside the datasheet base directory.
InsideBase(p) ==
    Len(p) > Len(BasePath) /\ SubSeq(p, 1, Len(BasePath)) = BasePath

\* The directories and the files a step creates.
NewDirs == fs'.dirs \ fs.dirs

NewFiles == {f.path : f \in fs'.files} \ {f.path : f \in fs.files}

\* The identifier has "..", "/" or "\".
HasPathSyntax(id) ==
    \/ Contains(id, <<".", ".">>)
    \/ Contains(id, <<"/">>)
    \/ Contains(id, <<"\\">>)

\* C19: for every component identifier add_component accepts and every
\* source file, everything store_datasheet creates lies inside the datasheet
\* base directory, and an identifier with "..", "/" or "\" never becomes a
\* path segment: a call with such an identifier creates nothing.
C19_StoredOnlyInsideBase ==
    [][ (StoreStep /\ AcceptedByAdd(dsCall'.component_id)) =>
            /\ \A p \in NewDirs \cup NewFiles : InsideBase(p)
            /\ HasPathSyntax(dsCall'.component_id) =>
                   NewDirs \cup NewFiles = {} ]_vars

\* The call must fail: no identifier, no such source file, or not a .pdf
\* (in any letter case).
MustFail(id, src) ==
    \/ id = <<>>
    \/ ~IsFile(fs, src)
    \/ lower(Suffix(src[Len(src)])) # <<".", "p", "d", "f">>

\* C20: store_datasheet fails with an error and creates no file and no
\* directory when the source file does not exist, its extension is not .pdf
\* or the component id is empty; otherwise it returns
\* base_path/<component_id>/<source file name>, and that file exists
\* afterwards with the content of the source.
C20_StoreFailsOrStores ==
    [][ StoreStep =>
            LET id == dsCall'.component_id
                src == dsCall'.file_path
                want == BasePath \o Parts(id) \o <<src[Len(src)]>>
            IN  IF MustFail(id, src)
                THEN /\ dsCall'.status # "ok"
                     /\ NewDirs = {}
                     /\ NewFiles = {}
                ELSE /\ dsCall'.status = "ok"
                     /\ dsCall'.ret = want
                     /\ Resolve(fs', want).ok
                     /\ \E f \in fs'.files, g \in fs.files :
                            /\ f.path = Resolve(fs', want).path
                            /\ g.path = src
                            /\ f.content = g.content ]_vars

\* C21: for every component identifier add_component accepts and every file
\* name, get_datasheet_path returns base_path/<component_id>/<filename>
\* without raising, and afterwards every directory on the way to that path
\* exists.
C21_PathReturnedAndDirectoriesExist ==
    (dsCall.op = "get_datasheet_path" /\ AcceptedByAdd(dsCall.component_id))
        =>
        LET want == BasePath \o Parts(dsCall.component_id) \o dsCall.file_path
        IN  /\ dsCall.status = "ok"
            /\ dsCall.ret = want
            /\ Resolve(fs, Parent(want)).ok
            /\ \A d \in Ancestors(Resolve(fs, Parent(want)).path) :
                   IsDir(fs, d)

\* The step replaces the stored datasheet at path p: p was a file and a
\* successful store_datasheet or viewer drop has written to it.
Replaces(p) ==
    /\ IsFile(fs, p)
    /\ InsideBase(p)
    /\ \/ /\ dsCall'.op = "store_datasheet"
          /\ dsCall'.status = "ok"
          /\ fs' # fs
          /\ Resolve(fs, dsCall'.ret).path = p
       \/ /\ dsCall'.op = "dropEvent"
          /\ dsCall'.status = "Success"
          /\ fs' # fs
          /\ dsCall'.ret = p

\* The content of the file at path p.
ContentOf(fsys, p) == (CHOOSE f \in fsys.files : f.path = p).content

\* Content c is kept for file p under backups/ as <timestamp>_<filename>.
BackedUp(fsys, p, c) ==
    \E f \in fsys.files, t \in 0..MaxTime :
        /\ f.path = Parent(p) \o <<BackupsName>>
                        \o <<Timestamp(t) \o <<"_">> \o p[Len(p)]>>
        /\ f.content = c

\* C22: whenever a component's existing datasheet file is replaced, by a
\* drop on the viewer or by store_datasheet with a file of the same name,
\* the content it had is afterwards under the component's backups/ directory
\* as <timestamp>_<filename>, and every version backed up before is still
\* there.
C22_ReplacedVersionsBackedUp ==
    [][ \A p \in {f.path : f \in fs.files} :
            /\ Replaces(p) => BackedUp(fs', p, ContentOf(fs, p))
            /\ \A c \in 0..4 : BackedUp(fs, p, c) => BackedUp(fs', p, c)
      ]_vars

AllowStep(id) ==
    /\ rlCall'.method = "allow_request"
    /\ rlCall'.identifier = id
    /\ rlCall'.at = now'

\* The calls for id that returned True and are less than time_window old.
AllowedInWindow(id) ==
    SelectSeq(allowed[id], LAMBDA t : now - t < limiter.time_window)

\* For every identifier, the calls of allow_request that returned True within
\* any span shorter than time_window are at most max_requests.
AllowedWithinLimit ==
    \A id \in LimiterIds :
        \A i, j \in 1..Len(allowed[id]) :
            (i <= j /\ allowed[id][j] - allowed[id][i] < limiter.time_window)
                => j - i + 1 <= limiter.max_requests

\* A call is allowed exactly when fewer than max_requests calls for its
\* identifier were allowed within the window; a call that returns False is not
\* recorded; the requests of every other identifier stay as they were.
CallAllowedUpToLimit ==
        \A id \in LimiterIds :
            AllowStep(id) =>
                /\ rlCall'.ret =
                       (Len(AllowedInWindow(id)) < limiter.max_requests)
                /\ ~rlCall'.ret =>
                       limiter'.requests[id] = InWindow(limiter, now, id)
                /\ \A other \in LimiterIds \ {id} :
                       limiter'.requests[other] = limiter.requests[other]

\* C24: for every identifier the calls of allow_request that returned True
\* within any span shorter than time_window never exceed max_requests (with
\* max_requests = 3 the first three are allowed and the following ones
\* blocked); a call that returns False is not recorded, and a call for one
\* identifier never changes the recorded requests, and so the outcome, of
\* another.
C24_AllowedNeverExceedsLimit ==
    []AllowedWithinLimit /\ [][CallAllowedUpToLimit]_vars

\* With max_requests = 3 a call for test_api has been blocked after three
\* were allowed, while the other identifier has its own allowed call.
C24_Witness ==
    /\ limiter.max_requests = 3
    /\ rlCall.method = "allow_request"
    /\ rlCall.identifier = "test_api"
    /\ rlCall.ret = FALSE
    /\ Len(allowed["test_api"]) = 3
    /\ Len(allowed["other_api"]) = 1

\* C27: get_wait_time returns 0.0 exactly when allow_request for the
\* identifier at that instant would return True, and otherwise the positive
\* time until the oldest recorded request leaves the window; the recorded
\* requests of every identifier are as before, apart from expired ones.
C27_WaitIsZeroIffAllowed ==
    [][ (rlCall'.method = "get_wait_time" /\ rlCall'.at = now') =>
            LET id == rlCall'.identifier
                mine == limiter'.requests[id]
            IN  /\ (rlCall'.wait = 0) = allow_request(limiter', now', id).ret
                /\ rlCall'.wait # 0 =>
                       /\ rlCall'.wait > 0
                       /\ mine # <<>>
                       /\ rlCall'.wait =
                              Oldest(mine) + limiter.time_window - now'
                /\ limiter'.requests =
                       [limiter.requests EXCEPT
                            ![id] = InWindow(limiter, now, id)]
      ]_vars

\* The last call of validate_file_path has returned.
Validated == fnCall.fn = "validate_file_path" /\ fnCall.state = "done"

\* Path b is path a or an ancestor of it.
IsSelfOrAncestor(b, a) == Len(b) <= Len(a) /\ SubSeq(a, 1, Len(b)) = b

\* C25: validate_file_path returns True if and only if the resolved file path
\* is the resolved base directory or a descendant of it, and so False for
\* every path outside the base directory.
C25_TrueIffInsideBase ==
    Validated =>
        LET f == Path_resolve(fnCall.args.file_path)
            b == Path_resolve(fnCall.args.base_directory)
        IN  fnCall.ret.value =
                ( /\ ~f.raised
                  /\ ~b.raised
                  /\ IsSelfOrAncestor(b.parts, f.parts) )

\* The leading contiguous run of digits and decimal points of a text.
LeadingRun(value_str) ==
    LET stops == {i \in 1..Len(value_str) : ~IsNumericChar(value_str[i])}
        first == IF stops = {} THEN Len(value_str) + 1
                 ELSE CHOOSE i \in stops : \A j \in stops : i <= j
    IN  SubSeq(value_str, 1, first - 1)

\* C26: the numeric literal is formed only from the leading contiguous run of
\* digits and decimal points: a digit or decimal point after the first other
\* character is not added to it, so the call returns what it returns for the
\* leading run followed by the other characters.
C26_NumberIsLeadingRun ==
    Parsed =>
        LET s == fnCall.args.value_str
        IN  /\ numeric_part(s) = LeadingRun(s)
            /\ fnCall.ret \in
                   parse_value_and_unit(LeadingRun(s) \o unit_part(s),
                                        fnCall.args.component_type)

\* The last operation was MainWindow.perform_search.
Searched == lastCall.op = "perform_search"

\* C28: perform_search(type_filter, value_filter) hands the parts list exactly
\* the components whose category equals type_filter (every category for
\* "All") and whose stored value contains value_filter (every value when it
\* is blank): the rows of search_components with type_filter as its category
\* filter and value_filter as its value filter.
C28_PanelFiltersCategoryAndValue ==
    Searched =>
        LET tf == lastCall.args.type_filter
            vf == lastCall.args.value_filter
        IN  /\ gui.shown = search_components(components, None, Some(tf),
                                             Some(vf))
            /\ \A i \in 1..Len(gui.shown) :
                   tf # All => gui.shown[i].type = tf

\* The step is a confirmed Add Component dialog.
DialogConfirmed ==
    /\ lastCall'.op = "show_add_component_dialog"
    /\ lastCall'.status # "cancelled"

\* C29: after the Add Component dialog is confirmed with an identifier that
\* passes validate_part_number and is not yet stored, a component row with
\* that identifier and the entered fields exists and the success message is
\* shown; an identifier that fails validate_part_number is never written.
C29_DialogAddsValidComponent ==
    [][ DialogConfirmed =>
            LET data == lastCall'.args
                pn == data.company_part_number
                stored(rows) == \E r \in rows : r.company_part_number = pn
            IN  /\ (validate_part_number(pn) /\ ~stored(components)) =>
                       /\ \E r \in components' :
                              /\ r.company_part_number = pn
                              /\ r.type = data.type
                              /\ r.value = data.value
                              /\ r.stock = data.stock
                       /\ gui'.message = "Success"
                /\ ~validate_part_number(pn) =>
                       (stored(components') => stored(components))
      ]_vars

\* C30: every row of supplier_parts has a component_id equal to the internal
\* id of a row of components: update_supplier_info never stores a quote for
\* a component that does not exist.
C30_QuotesReferenceComponents ==
    \A q \in supplier_parts : \E c \in components : c.id = q.component_id

============================================================================
